---- MODULE Spec2Model ----
(***************************************************************************)
(* Quasi-Monte Carlo engines of scipy/stats/_qmc.py as a state machine.    *)
(*                                                                         *)
(* An engine is a record holding the attributes its class keeps.  A world  *)
(* is an engine together with the generator object of the caller (cg) and  *)
(* the count of OS-entropy generators created so far (ent).  Every method  *)
(* is an operator from a world to the world after the call and the result  *)
(* of the call, and every action applies one method to the state.          *)
(*                                                                         *)
(* Real numbers are exact fractions <<num, den>>.  A generator is a        *)
(* position in a stream; the value at a position is a fixed function of    *)
(* the stream, the position and a salt chosen in Init.                     *)
(***************************************************************************)
EXTENDS Integers, Sequences, FiniteSets, TLC

VARIABLES eng, cg, ent, salt, args, out, firstPerms, nsteps,
          engB, calls, logA, logB

\* The second instance of the two-instance specification and its records.
pairVars == <<engB, calls, logA, logB>>

vars == <<eng, cg, ent, salt, args, out, firstPerms, nsteps, pairVars>>

(***************************************************************************)
(* Bounds of the model.                                                    *)
(***************************************************************************)
MaxN == 2          \* largest n passed to random / fast_forward
MaxM == 2          \* largest m passed to random_base2
MaxGen == 8        \* cap of the Sobol cursor in the Sobol specification
MaxSteps == 3      \* calls per behaviour in the all-engine specification
MaxSalt == 1       \* salts 0..MaxSalt select the generator realisation
RngModulus == 12   \* raw generator outputs are 0..RngModulus-1
UGrid == 2         \* uniform floats are k/UGrid, k in 0..UGrid-1
NDigits == 3       \* digits computed by the van der Corput loop
MaxHops == 2       \* points the default optimizer tries after x0
MaxPairCalls == 2  \* calls per instance in the two-instance specification
MaxVdcN == 5       \* largest n of a van_der_corput or Halton.random call
MaxVdcSteps == 2   \* calls per behaviour in the van der Corput specification
MaxOdSteps == 2    \* calls per behaviour in the OptimalDesign specification
MaxWriteSteps == 2 \* steps per behaviour in the specification with caller writes
MaxRows == 3       \* rows of a sample passed to the module-level functions

(***************************************************************************)
(* Program constants.                                                      *)
(***************************************************************************)
MAXBIT == 30

(***************************************************************************)
(* Integer helpers.                                                        *)
(***************************************************************************)
Max(a, b) == IF a >= b THEN a ELSE b

Min(a, b) == IF a <= b THEN a ELSE b

Abs(a) == IF a < 0 THEN 0 - a ELSE a

RECURSIVE Gcd(_, _)
Gcd(a, b) == IF b = 0 THEN a ELSE Gcd(b, a % b)

RECURSIVE Xor(_, _)
Xor(a, b) ==
    IF a = 0 THEN b
    ELSE IF b = 0 THEN a
    ELSE (IF a % 2 = b % 2 THEN 0 ELSE 1) + (2 * Xor(a \div 2, b \div 2))

\* n & (n - 1) == 0 for n >= 0: n is zero or has a single set bit.
RECURSIVE AndPredIsZero(_)
AndPredIsZero(n) ==
    IF n <= 1 THEN TRUE
    ELSE IF n % 2 = 1 THEN FALSE
    ELSE AndPredIsZero(n \div 2)

\* Bit b of v counted from the most significant of the MAXBIT bits (b = 0).
BitAt(v, b) == (v \div (2^(MAXBIT - 1 - b))) % 2

Take(s, n) == SubSeq(s, 1, Min(n, Len(s)))

LastRows(s, m) == SubSeq(s, Len(s) - m + 1, Len(s))

(***************************************************************************)
(* Seeds and generators.                                                   *)
(***************************************************************************)
NoneSeed == [kind |-> "none", v |-> 0, stream |-> 0, pos |-> 0]

IntSeed(s) == [kind |-> "int", v |-> s, stream |-> 0, pos |-> 0]

\* The caller's generator instance, passed by reference: its state is cg.
GenSeed == [kind |-> "gen", v |-> 0, stream |-> 0, pos |-> 0]

\* A generator object owned by the holder of the value (a deep copy).
GenCopy(g) == [kind |-> "copy", v |-> 0, stream |-> g.stream, pos |-> g.pos]

NoGen == [tag |-> "none", stream |-> 0, pos |-> 0]

OwnGen(stream, pos) == [tag |-> "own", stream |-> stream, pos |-> pos]

EntropyStream(k) == 100 + k

\* The raw output of a generator at a position of a stream.  The salt
\* above MaxSalt is the realisation whose outputs are all 1: every bit drawn
\* with integers(2) is set.
RngCell(stream, pos) ==
    IF salt > MaxSalt THEN 1
    ELSE ((stream * 5) + (pos * 7) + (salt * 3) + (((stream + 1) * pos) % 11)
            + ((pos * pos) % 13)) % RngModulus

\* copy.deepcopy(seed): None and integers are values, a generator is copied.
DeepCopy(seed, cgv) == IF seed.kind = "gen" THEN GenCopy(cgv) ELSE seed

\* A check_random_state that seeds from OS entropy whatever it is given
\* short of a generator.
CheckRandomStateUnseeded(seed, e) ==
    IF seed.kind \in {"none", "int"}
    THEN [gen |-> OwnGen(EntropyStream(e), 0), ent |-> e + 1]
    ELSE IF seed.kind = "gen"
    THEN [gen |-> [tag |-> "caller", stream |-> 0, pos |-> 0], ent |-> e]
    ELSE [gen |-> [tag |-> "seedobj", stream |-> 0, pos |-> 0], ent |-> e]

\* A check_random_state that hands out one process-wide generator for
\* every integer seed.
CheckRandomStateShared(seed, e) ==
    IF seed.kind = "none"
    THEN [gen |-> OwnGen(EntropyStream(e), 0), ent |-> e + 1]
    ELSE IF seed.kind \in {"int", "gen"}
    THEN [gen |-> [tag |-> "caller", stream |-> 0, pos |-> 0], ent |-> e]
    ELSE [gen |-> [tag |-> "seedobj", stream |-> 0, pos |-> 0], ent |-> e]

\* check_random_state(seed): None draws OS entropy, an integer seeds a new
\* generator, a generator instance is returned as it is (the caller's
\* object, or the object held in rng_seed).
CheckRandomState(seed, e) ==
    IF seed.kind = "none"
    THEN [gen |-> OwnGen(EntropyStream(e), 0), ent |-> e + 1]
    ELSE IF seed.kind = "int"
    THEN [gen |-> OwnGen(seed.v, 0), ent |-> e]
    ELSE IF seed.kind = "gen"
    THEN [gen |-> [tag |-> "caller", stream |-> 0, pos |-> 0], ent |-> e]
    ELSE [gen |-> [tag |-> "seedobj", stream |-> 0, pos |-> 0], ent |-> e]

\* The state of the generator object that e.rng refers to.
GenOf(e, cgv) ==
    IF e.rng.tag = "caller" THEN cgv
    ELSE IF e.rng.tag = "seedobj"
    THEN [stream |-> e.rng_seed.stream, pos |-> e.rng_seed.pos]
    ELSE [stream |-> e.rng.stream, pos |-> e.rng.pos]

\* The world after e.rng produced k raw outputs.
Advance(w, k) ==
    IF w.eng.rng.tag = "caller"
    THEN [w EXCEPT !.cg.pos = @ + k]
    ELSE IF w.eng.rng.tag = "seedobj"
    THEN [w EXCEPT !.eng.rng_seed.pos = @ + k]
    ELSE [w EXCEPT !.eng.rng.pos = @ + k]

(***************************************************************************)
(* Fractions.                                                              *)
(***************************************************************************)
Frac(a, b) == LET g == Gcd(Abs(a), b) IN <<a \div g, b \div g>>

InUnit(x) == 0 <= x[1] /\ x[1] < x[2]

(***************************************************************************)
(* Results of calls.                                                       *)
(***************************************************************************)
Ok(block) == [ok |-> TRUE, block |-> block, perms |-> <<>>, err |-> ""]

Raise(err) == [ok |-> FALSE, block |-> <<>>, perms |-> <<>>, err |-> err]

(***************************************************************************)
(* The engine record, with the attributes of every class.                  *)
(***************************************************************************)
NoDesign == [some |-> FALSE, rows |-> <<>>]

Design(rows) == [some |-> TRUE, rows |-> rows]

Inf == <<1, 0>>

Blank ==
    [kind |-> "none", d |-> 0, has_base |-> TRUE,
     rng |-> NoGen, rng_seed |-> NoneSeed, num_generated |-> 0,
     seed |-> NoneSeed, scramble |-> FALSE, base |-> <<>>,
     centered |-> FALSE,
     sv |-> <<>>, shift |-> <<>>, quasi |-> <<>>, first_point |-> <<>>,
     start_design |-> NoDesign, niter |-> 1, method |-> "default",
     best_doe |-> NoDesign, best_disc |-> Inf, olhs_num_generated |-> 0,
     engine |-> <<>>, pvals |-> <<>>]

\* QMCEngine.__init__: d, rng, rng_seed, num_generated.
BaseInit(e, d, seed, w) ==
    LET r == CheckRandomState(seed, w.ent)
        \* a generator object handed over by reset: rng is that object and
        \* rng_seed a new copy of it
        gen == IF seed.kind = "copy" THEN OwnGen(seed.stream, seed.pos)
               ELSE r.gen
    IN [w EXCEPT !.eng = [e EXCEPT !.d = d, !.rng = gen,
                                   !.rng_seed = DeepCopy(seed, w.cg),
                                   !.num_generated = 0],
                 !.ent = r.ent]

(***************************************************************************)
(* Sobol.  The helpers of scipy.stats._sobol are modelled from the         *)
(* specification: direction numbers, scrambling, the Gray-code draw.       *)
(***************************************************************************)
\* Position (0-indexed) of the lowest unset bit of i.
RECURSIVE LowZeroBit(_)
LowZeroBit(i) == IF i % 2 = 0 THEN 0 ELSE 1 + LowZeroBit(i \div 2)

\* m-values of dimension 1 (polynomial x + 1, m_1 = 1).
RECURSIVE MValue(_)
MValue(k) ==
    IF k = 1 THEN 1 ELSE LET p == MValue(k - 1) IN Xor(2 * p, p)

\* initialize_v: column k (1-indexed) of dimension j (1-indexed).
DirectionNumber(j, k) ==
    IF j = 1 THEN 2^(MAXBIT - k) ELSE MValue(k) * (2^(MAXBIT - k))

InitializeV(d) ==
    [j \in 1..d |-> [k \in 1..MAXBIT |-> DirectionNumber(j, k)]]

\* Entry (p, q) of the lower triangular matrix of dimension j (0-indexed),
\* np.tril of the bits drawn at position pos0 onwards.
LtmBit(g, pos0, j, p, q) ==
    IF q > p THEN 0
    ELSE RngCell(g.stream, pos0 + (((j * MAXBIT) + p) * MAXBIT) + q) % 2

\* Column q of that matrix as an integer, row p weighing 2^(MAXBIT-1-p).
RECURSIVE LtmColumn(_, _, _, _, _)
LtmColumn(g, pos0, j, q, p) ==
    IF p >= MAXBIT THEN 0
    ELSE (LtmBit(g, pos0, j, p, q) * (2^(MAXBIT - 1 - p)))
         + LtmColumn(g, pos0, j, q, p + 1)

\* The product of the matrix with the bits of v over GF(2): the XOR of the
\* columns that the set bits of v select.
RECURSIVE ScrambleValue(_, _, _, _, _)
ScrambleValue(g, pos0, j, v, q) ==
    IF q >= MAXBIT THEN 0
    ELSE IF BitAt(v, q) = 0 THEN ScrambleValue(g, pos0, j, v, q + 1)
    ELSE Xor(LtmColumn(g, pos0, j, q, q),
             ScrambleValue(g, pos0, j, v, q + 1))

\* _cscramble: every column replaced by the product with the matrix.
CScramble(g, pos0, d, sv) ==
    [j \in 1..d |->
        [k \in 1..MAXBIT |-> ScrambleValue(g, pos0, j - 1, sv[j][k], 0)]]

RECURSIVE DotPow2(_, _, _, _)
DotPow2(g, pos0, j, k) ==
    IF k >= MAXBIT THEN 0
    ELSE ((RngCell(g.stream, pos0 + (j * MAXBIT) + k) % 2) * (2^k))
         + DotPow2(g, pos0, j, k + 1)

ToUnit(q) == [j \in DOMAIN q |-> <<q[j], 2^MAXBIT>>]

\* _draw(n, num_gen, dim, sv, quasi, sample).
RECURSIVE Draw(_, _, _, _)
Draw(n, num_gen, sv, quasi) ==
    IF n <= 0 THEN [quasi |-> quasi, sample |-> <<>>]
    ELSE LET c == LowZeroBit(num_gen)
             q == [j \in DOMAIN quasi |-> Xor(quasi[j], sv[j][c + 1])]
             rest == Draw(n - 1, num_gen + 1, sv, q)
         IN [quasi |-> rest.quasi, sample |-> <<ToUnit(q)>> \o rest.sample]

\* _fast_forward(n, num_gen, dim, sv, quasi).
FastForwardQuasi(n, num_gen, sv, quasi) == Draw(n, num_gen, sv, quasi).quasi

\* A row of np.empty that no draw filled.
Unfilled(d) == [j \in 1..d |-> <<0 - 1, 2^MAXBIT>>]

\* Sobol._scramble.
SobolScramble(w) ==
    LET e == w.eng
        g == GenOf(e, w.cg)
        shift == [j \in 1..e.d |-> DotPow2(g, g.pos, j - 1, 0)]
        pos1 == g.pos + (e.d * MAXBIT)
        sv == CScramble(g, pos1, e.d, e.sv)
        w1 == Advance(w, (e.d * MAXBIT) + (e.d * MAXBIT * MAXBIT))
    IN [w1 EXCEPT !.eng.shift = shift, !.eng.quasi = shift, !.eng.sv = sv,
                  !.eng.num_generated = 0]

\* Sobol.__init__.
SobolInit(d, scramble, seed, w) ==
    LET w0 == BaseInit([Blank EXCEPT !.kind = "Sobol",
                                     !.scramble = scramble], d, seed, w)
        w1 == [w0 EXCEPT !.eng.sv = InitializeV(d)]
        w2 == IF ~scramble
              THEN [w1 EXCEPT !.eng.shift = [j \in 1..d |-> 0]]
              ELSE SobolScramble(w1)
    IN [w2 EXCEPT !.eng.quasi = w2.eng.shift,
                  !.eng.first_point = ToUnit(w2.eng.shift)]

SobolRandomNoSplice(w, n) ==
    LET e == w.eng
        r == Draw(n, e.num_generated, e.sv, e.quasi)
    IN [w |-> [w EXCEPT !.eng.quasi = r.quasi,
                        !.eng.num_generated = @ + n],
        res |-> Ok(r.sample)]

\* Sobol.random.
SobolRandom(w, n) ==
    LET e == w.eng
    IN IF e.num_generated = 0
       THEN IF n = 1
            THEN [w |-> [w EXCEPT !.eng.num_generated = @ + n],
                  res |-> Ok(<<e.first_point>>)]
            ELSE LET r == Draw(n - 1, e.num_generated, e.sv, e.quasi)
                     sample == r.sample \o <<Unfilled(e.d)>>
                 IN [w |-> [w EXCEPT !.eng.quasi = r.quasi,
                                     !.eng.num_generated = @ + n],
                     res |-> Ok(Take(<<e.first_point>> \o sample, n))]
       ELSE LET r == Draw(n, e.num_generated - 1, e.sv, e.quasi)
            IN [w |-> [w EXCEPT !.eng.quasi = r.quasi,
                                !.eng.num_generated = @ + n],
                res |-> Ok(r.sample)]

SobolRandomBase2NoCheck(w, m) == SobolRandom(w, 2^m)

\* A random_base2 that accepts every even total.
SobolRandomBase2Even(w, m) ==
    LET n == 2^m
        total_n == w.eng.num_generated + n
    IN IF total_n % 2 # 0
       THEN [w |-> w, res |-> Raise("ValueError")]
       ELSE SobolRandom(w, n)

\* Sobol.random_base2.
SobolRandomBase2(w, m) ==
    LET n == 2^m
        total_n == w.eng.num_generated + n
    IN IF ~AndPredIsZero(total_n)
       THEN [w |-> w, res |-> Raise("ValueError")]
       ELSE SobolRandom(w, n)

\* Sobol.reset.
\* A reset that also drops the scramble mask.
SobolResetUnscrambled(w) ==
    [w EXCEPT !.eng.quasi = [j \in 1..w.eng.d |-> 0],
              !.eng.shift = [j \in 1..w.eng.d |-> 0],
              !.eng.num_generated = 0]

SobolReset(w) ==
    [w EXCEPT !.eng.quasi = w.eng.shift, !.eng.num_generated = 0]

SobolFastForwardPlain(w, n) ==
    [w EXCEPT !.eng.quasi =
                  FastForwardQuasi(n, w.eng.num_generated, w.eng.sv, @),
              !.eng.num_generated = @ + n]

\* Sobol.fast_forward.
SobolFastForward(w, n) ==
    LET e == w.eng
    IN IF e.num_generated = 0
       THEN [w EXCEPT !.eng.quasi =
                          FastForwardQuasi(n - 1, e.num_generated, e.sv, @),
                      !.eng.num_generated = @ + n]
       ELSE [w EXCEPT !.eng.quasi =
                          FastForwardQuasi(n, e.num_generated - 1, e.sv, @),
                      !.eng.num_generated = @ + n]

(***************************************************************************)
(* The base class methods.                                                 *)
(***************************************************************************)
\* QMCEngine.reset.
BaseReset(w) ==
    LET r == CheckRandomState(w.eng.rng_seed, w.ent)
    IN [w EXCEPT !.eng.rng = r.gen, !.eng.num_generated = 0, !.ent = r.ent]

\* QMCEngine.fast_forward.
BaseFastForward(w, n) == [w EXCEPT !.eng.num_generated = @ + n]

(***************************************************************************)
(* Generator methods.                                                      *)
(***************************************************************************)
\* Generator.shuffle on x[1..i], one output per exchange, read from pos on.
RECURSIVE Shuffle(_, _, _, _)
Shuffle(x, g, pos, i) ==
    IF i <= 1 THEN x
    ELSE LET j == 1 + (RngCell(g.stream, pos) % i)
             y == [x EXCEPT ![i] = x[j], ![j] = x[i]]
         IN Shuffle(y, g, pos + 1, i - 1)

\* Generator.permutation(base): a shuffle of 0..base-1.
Permutation(base, g, pos) == Shuffle([k \in 1..base |-> k - 1], g, pos, base)

(***************************************************************************)
(* van der Corput and Halton.                                              *)
(***************************************************************************)
Primes == <<2, 3, 5>>

\* n_primes(n).
NPrimes(n) == SubSeq(Primes, 1, n)

\* The permutations the loop of van_der_corput draws, one per digit.
VdcPerms(base, scramble, g) ==
    IF scramble
    THEN [k \in 1..NDigits |->
             Permutation(base, g, g.pos + ((k - 1) * (base - 1)))]
    ELSE <<>>

\* The digits of one point when the permutation of the first iteration is
\* kept for the later ones.
RECURSIVE VdcDigitsOnePerm(_, _, _, _, _)
VdcDigitsOnePerm(q, k, base, scramble, perms) ==
    IF k > NDigits THEN 0
    ELSE LET remainder == IF scramble
                          THEN perms[1][1 + ((q[1] \div q[2]) % base)]
                          ELSE (q[1] \div q[2]) % base
             quotient == <<q[1] - (remainder * q[2]), q[2] * base>>
         IN (remainder * (base^(NDigits - k)))
            + VdcDigitsOnePerm(IF scramble THEN quotient
                               ELSE <<quotient[1] \div base, 1>>,
                               k + 1, base, scramble, perms)

\* The digits of one point from digit k on, as the numerator over
\* base^NDigits; q is the running quotient, a fraction once scrambled
\* remainders have been subtracted from it.
RECURSIVE VdcDigits(_, _, _, _, _)
VdcDigits(q, k, base, scramble, perms) ==
    IF k > NDigits THEN 0
    ELSE LET remainder == IF scramble
                          THEN perms[k][1 + ((q[1] \div q[2]) % base)]
                          ELSE (q[1] \div q[2]) % base
             quotient == <<q[1] - (remainder * q[2]), q[2] * base>>
         IN (remainder * (base^(NDigits - k)))
            + VdcDigits(IF scramble THEN quotient
                        ELSE <<quotient[1] \div base, 1>>,
                        k + 1, base, scramble, perms)

\* A van der Corput sequence that starts one index late.
VanDerCorputFromOne(n, base, start_index, scramble, g) ==
    [i \in 1..n |->
        <<VdcDigits(<<start_index + i, 1>>, 1, base, scramble,
                    VdcPerms(base, scramble, g)),
          base^NDigits>>]

\* van_der_corput(n, base, start_index, scramble, seed) with the generator
\* g that check_random_state(seed) returned.
VanDerCorput(n, base, start_index, scramble, g) ==
    LET perms == VdcPerms(base, scramble, g)
    IN [i \in 1..n |->
          <<VdcDigits(<<start_index + i - 1, 1>>, 1, base, scramble, perms),
            base^NDigits>>]

\* Halton.__init__.
HaltonInit(d, scramble, seed, w) ==
    LET w0 == BaseInit([Blank EXCEPT !.kind = "Halton"], d, seed, w)
    IN [w0 EXCEPT !.eng.seed = seed, !.eng.base = NPrimes(d),
                  !.eng.scramble = scramble]

\* The generator of the j-th van_der_corput call of one Halton.random:
\* check_random_state(copy.deepcopy(self.seed)).
HaltonGen(w, j) ==
    LET s == DeepCopy(w.eng.seed, w.cg)
    IN IF s.kind = "copy" THEN [stream |-> s.stream, pos |-> s.pos]
       ELSE LET r == CheckRandomState(s, w.ent + j - 1)
            IN [stream |-> r.gen.stream, pos |-> r.gen.pos]

\* Halton.random.
HaltonRandom(w, n) ==
    LET e == w.eng
        col == [j \in 1..e.d |->
                  VanDerCorput(n, e.base[j], e.num_generated, e.scramble,
                               HaltonGen(w, j))]
        perms == [j \in 1..e.d |->
                    VdcPerms(e.base[j], e.scramble, HaltonGen(w, j))]
        sample == [i \in 1..n |-> [j \in 1..e.d |-> col[j][i]]]
    IN [w |-> [w EXCEPT !.eng.num_generated = @ + n,
                        !.ent = IF e.seed.kind = "none" THEN @ + e.d ELSE @],
        res |-> [Ok(sample) EXCEPT !.perms = perms]]

(***************************************************************************)
(* Latin hypercubes.                                                       *)
(***************************************************************************)
\* A column of n values drawn from U(0, 1) with no offset j/n, shuffled.
OlhsColumnUnstratified(g, pos, n) ==
    LET temp == [i \in 1..n |->
                    Frac(RngCell(g.stream, pos + i - 1) % (n * UGrid),
                         n * UGrid)]
    IN Shuffle(temp, g, pos + n, n)

\* One column of OrthogonalLatinHypercube.random: j/n + U(0, 1/n), shuffled.
OlhsColumn(g, pos, n) ==
    LET temp == [i \in 1..n |->
                    Frac(((i - 1) * UGrid) + (RngCell(g.stream, pos + i - 1)
                                                % UGrid),
                         n * UGrid)]
    IN Shuffle(temp, g, pos + n, n)

\* The sample drawn from generator g, and the outputs it took.
OlhsSample(g, d, n) ==
    LET col == [j \in 1..d |->
                  OlhsColumn(g, g.pos + ((j - 1) * ((2 * n) - 1)), n)]
    IN [sample |-> [i \in 1..n |-> [j \in 1..d |-> col[j][i]]],
        used |-> d * ((2 * n) - 1)]

\* OrthogonalLatinHypercube.__init__.
OlhsInit(d, seed, w) == BaseInit([Blank EXCEPT !.kind = "OLHS"], d, seed, w)

\* OrthogonalLatinHypercube.random.
OlhsRandom(w, n) ==
    IF n = 0 THEN [w |-> w, res |-> Raise("ZeroDivisionError")]
    ELSE LET r == OlhsSample(GenOf(w.eng, w.cg), w.eng.d, n)
             w1 == Advance(w, r.used)
         IN [w |-> [w1 EXCEPT !.eng.num_generated = @ + n],
             res |-> Ok(r.sample)]

\* LatinHypercube.__init__.
LhsInit(d, centered, seed, w) ==
    LET w0 == BaseInit([Blank EXCEPT !.kind = "LHS"], d, seed, w)
    IN [w0 EXCEPT !.eng.centered = centered]

\* LatinHypercube.random: r from rg_sample unless centered, then q from
\* rg_integers(low=1, high=n), whose high is exclusive and which raises for
\* low >= high.
LhsRandom(w, n) ==
    LET e == w.eng
        g0 == GenOf(e, w.cg)
        w1 == IF e.centered THEN w ELSE Advance(w, n * e.d)
        g1 == GenOf(w1.eng, w1.cg)
        r(i, j) == IF e.centered THEN <<1, 2>>
                   ELSE <<RngCell(g0.stream, g0.pos + ((i - 1) * e.d) + j - 1)
                            % UGrid, UGrid>>
        q(i, j) == 1 + (RngCell(g1.stream, g1.pos + ((i - 1) * e.d) + j - 1)
                          % (n - 1))
        w2 == Advance(w1, n * e.d)
    IN IF 1 >= n THEN [w |-> w1, res |-> Raise("ValueError")]
       ELSE [w |-> [w2 EXCEPT !.eng.num_generated = @ + n],
             res |-> Ok([i \in 1..n |-> [j \in 1..e.d |->
                           Frac((q(i, j) * r(i, j)[2]) - r(i, j)[1],
                                n * r(i, j)[2])]])]

\* LatinHypercube.reset: the constructor again, on rng_seed.
LhsReset(w) == LhsInit(w.eng.d, w.eng.centered, w.eng.rng_seed, w)

(***************************************************************************)
(* Samplers over a base Sobol engine.                                      *)
(***************************************************************************)
\* The world of the inner engine.
Inner(w) == [eng |-> w.eng.engine, cg |-> w.cg, ent |-> w.ent]

\* The world after the inner engine moved to iw.
Outer(w, iw) ==
    [w EXCEPT !.eng.engine = iw.eng, !.cg = iw.cg, !.ent = iw.ent]

\* norm.ppf(0.5 + (1 - 1e-10) * (u - 0.5)) + mean for mean 0, kept as a
\* term: the map is one-to-one.
StandardNormal(u) == <<"ppf", u[1], u[2]>>

\* MultivariateNormalQMC.__init__ with cov and cov_root None,
\* inv_transform True and engine None.
MvnInit(d, seed, w) ==
    LET w0 == BaseInit([Blank EXCEPT !.kind = "MVN"], d, seed, w)
        iw == SobolInit(d, TRUE, seed,
                        [eng |-> Blank, cg |-> w0.cg, ent |-> w0.ent])
    IN Outer(w0, iw)

\* MultivariateNormalQMC.random.
MvnRandom(w, n) ==
    LET r == SobolRandom(Inner(w), n)
    IN [w |-> Outer(w, r.w),
        res |-> Ok([i \in 1..Len(r.res.block) |->
                      [j \in 1..w.eng.d |->
                          StandardNormal(r.res.block[i][j])]])]

\* MultivariateNormalQMC.reset.
MvnReset(w) == Outer(w, SobolReset(Inner(w)))

\* _fill_p_cumulative: running sums of pvals over their common denominator.
RECURSIVE FillPCumulative(_, _)
FillPCumulative(pvals, k) ==
    IF k = 0 THEN 0 ELSE pvals[k][1] + FillPCumulative(pvals, k - 1)

\* Probability vectors given to MultinomialQMC, over a common denominator
\* that is a power of two: two categories, a category of probability zero,
\* a vector whose sum is 1 - 2^-17, and one whose sum is 1/2.
PvalsChoices ==
    {<<<<1, 4>>, <<3, 4>>>>,
     <<<<0, 4>>, <<1, 4>>, <<3, 4>>>>,
     <<<<2^16, 2^17>>, <<2^16 - 1, 2^17>>>>,
     <<<<1, 4>>, <<1, 4>>>>}

\* np.isclose(a, 1) with the defaults rtol = 1e-5 and atol = 1e-8:
\* |a - 1| <= 1e-8 + 1e-5, for a reduced fraction a.
IsCloseToOne(a) == Abs(a[1] - a[2]) * (10^8) <= 1001 * a[2]

\* The sum of a probability vector over its common denominator.
PvalsSum(pvals) ==
    Frac(FillPCumulative(pvals, Len(pvals)), pvals[1][2])

\* The checks of MultinomialQMC.__init__ pass.
PvalsAccepted(pvals) ==
    /\ \A k \in 1..Len(pvals) : pvals[k][1] >= 0
    /\ IsCloseToOne(PvalsSum(pvals))

\* u < P[k] for u = u[1] / 2^MAXBIT and P[k] over the denominator of pvals.
BelowCumulative(u, pvals, k) ==
    u[1] < FillPCumulative(pvals, k) * (u[2] \div pvals[k][2])

\* A count per category of the draws below its cumulative probability,
\* those of the categories before it included.
CategorizeCumulative(draws, pvals) ==
    [k \in 1..Len(pvals) |->
        Cardinality({i \in 1..Len(draws) :
            BelowCumulative(draws[i], pvals, k)})]

\* _categorize: every draw counted in the first category it is below.
Categorize(draws, pvals) ==
    [k \in 1..Len(pvals) |->
        Cardinality({i \in 1..Len(draws) :
            /\ BelowCumulative(draws[i], pvals, k)
            /\ \A l \in 1..(k - 1) : ~BelowCumulative(draws[i], pvals, l)})]

\* MultinomialQMC.__init__ with engine None: no call of the base
\* constructor, so no d, rng, rng_seed or num_generated.
MnInit(pvals, seed, w) ==
    LET iw == SobolInit(1, TRUE, seed,
                        [eng |-> Blank, cg |-> w.cg, ent |-> w.ent])
    IN Outer([w EXCEPT !.eng = [Blank EXCEPT !.kind = "MN",
                                             !.has_base = FALSE,
                                             !.pvals = pvals]], iw)

\* MultinomialQMC.random.
MnRandom(w, n) ==
    LET r == SobolRandom(Inner(w), n)
        base_draws == [i \in 1..Len(r.res.block) |-> r.res.block[i][1]]
    IN [w |-> Outer(w, r.w),
        res |-> Ok(<<Categorize(base_draws, w.eng.pvals)>>)]

\* MultinomialQMC.reset.
MnReset(w) == Outer(w, SobolReset(Inner(w)))

(***************************************************************************)
(* Arithmetic of fractions, for the discrepancy.                           *)
(***************************************************************************)
RInt(k) == <<k, 1>>

RAdd(a, b) ==
    LET g == Gcd(a[2], b[2])
    IN Frac((a[1] * (b[2] \div g)) + (b[1] * (a[2] \div g)),
            (a[2] \div g) * b[2])

RNeg(a) == <<0 - a[1], a[2]>>

RSub(a, b) == RAdd(a, RNeg(b))

RMul(a, b) ==
    LET g1 == Gcd(Abs(a[1]), b[2])
        g2 == Gcd(Abs(b[1]), a[2])
    IN Frac((a[1] \div g1) * (b[1] \div g2), (a[2] \div g2) * (b[2] \div g1))

RInv(a) == IF a[1] < 0 THEN <<0 - a[2], 0 - a[1]>> ELSE <<a[2], a[1]>>

RDiv(a, b) == RMul(a, RInv(b))

RAbs(a) == <<Abs(a[1]), a[2]>>

RLess(a, b) == RSub(a, b)[1] < 0

RHalf(a) == RMul(<<1, 2>>, a)

\* Sum and product of f(1), ..., f(n).
RECURSIVE RSum(_, _)
RSum(f, n) == IF n = 0 THEN RInt(0) ELSE RAdd(f[n], RSum(f, n - 1))

RECURSIVE RProd(_, _)
RProd(f, n) == IF n = 0 THEN RInt(1) ELSE RMul(f[n], RProd(f, n - 1))

RECURSIVE RPow(_, _)
RPow(a, k) == IF k = 0 THEN RInt(1) ELSE RMul(a, RPow(a, k - 1))

(***************************************************************************)
(* Centered discrepancy and its update under an exchange.  Intermediate    *)
(* quantities are passed on as arguments, so each is written once.         *)
(***************************************************************************)
\* |x - 0.5|
AbsZ(x) == RAbs(RSub(x, <<1, 2>>))

\* 1 + 0.5 * a - 0.5 * a^2 for a = |x - 0.5|
HTerm(a) == RSub(RAdd(RInt(1), RHalf(a)), RHalf(RMul(a, a)))

\* 1 + 0.5 * |x - 0.5| + 0.5 * |y - 0.5| - 0.5 * |x - y|
CdPair(x, y) ==
    RSub(RAdd(RAdd(RInt(1), RHalf(AbsZ(x))), RHalf(AbsZ(y))),
         RHalf(RAbs(RSub(x, y))))

CdCombine(n, d, disc1, disc2) ==
    RAdd(RSub(RPow(<<13, 12>>, d), RMul(<<2, n>>, disc1)),
         RMul(<<1, n * n>>, disc2))

\* discrepancy(sample, iterative) with method 'CD': if iterative, n += 1.
DiscrepancyWith(sample, iterative) ==
    CdCombine(Len(sample) + (IF iterative THEN 1 ELSE 0), Len(sample[1]),
        RSum([i \in 1..Len(sample) |->
                RProd([k \in 1..Len(sample[1]) |->
                         HTerm(AbsZ(sample[i][k]))], Len(sample[1]))],
             Len(sample)),
        RSum([i \in 1..Len(sample) |->
                RSum([j \in 1..Len(sample) |->
                        RProd([k \in 1..Len(sample[1]) |->
                                 CdPair(sample[i][k], sample[j][k])],
                              Len(sample[1]))],
                     Len(sample))],
             Len(sample)))

\* discrepancy(sample) with method 'CD'.
Discrepancy(sample) ==
    CdCombine(Len(sample), Len(sample[1]),
        RSum([i \in 1..Len(sample) |->
                RProd([k \in 1..Len(sample[1]) |->
                         HTerm(AbsZ(sample[i][k]))], Len(sample[1]))],
             Len(sample)),
        RSum([i \in 1..Len(sample) |->
                RSum([j \in 1..Len(sample) |->
                        RProd([k \in 1..Len(sample[1]) |->
                                 CdPair(sample[i][k], sample[j][k])],
                              Len(sample[1]))],
                     Len(sample))],
             Len(sample)))

\* 2 + |z_x| + |z_y| - |z_x - z_y|
PdPair(x, y) ==
    RSub(RAdd(RAdd(RInt(2), AbsZ(x)), AbsZ(y)), RAbs(RSub(x, y)))

\* Eq (19): c_ij of rows i and j.
PdC(sample, i, j) ==
    RMul(<<1, Len(sample) * Len(sample)>>,
         RProd([c \in 1..Len(sample[1]) |->
                  RHalf(PdPair(sample[i][c], sample[j][c]))],
               Len(sample[1])))

\* g_i and h_i.
PdG(sample, i) ==
    RProd([c \in 1..Len(sample[1]) |-> RAdd(RInt(1), AbsZ(sample[i][c]))],
          Len(sample[1]))

PdH(sample, i) ==
    RProd([c \in 1..Len(sample[1]) |-> HTerm(AbsZ(sample[i][c]))],
          Len(sample[1]))

\* Eq (20): c_ii from g_i and h_i.
PdCii(n, g, h) == RSub(RMul(<<1, n * n>>, g), RMul(<<2, n>>, h))

\* Eq (25) and Eq (26).
PdCp1(n, g, h, alpha, beta) ==
    RSub(RMul(RMul(g, alpha), <<1, n * n>>),
         RMul(RMul(RMul(RInt(2), alpha), beta), RMul(h, <<1, n>>)))

PdCp2(n, g, h, alpha, beta) ==
    RSub(RDiv(g, RMul(RInt(n * n), alpha)),
         RDiv(RMul(RInt(2), h), RMul(RInt(n), RMul(alpha, beta))))

\* A term that leaves out the change of c_i2j.
PdTermOneRow(gamma, c1, c2) == RSub(RMul(gamma, c1), c1)

\* c_p_i1j - c_i1j + c_p_i2j - c_i2j, from gamma (Eq (22)) and the c's.
PdTerm(gamma, c1, c2) ==
    RAdd(RSub(RMul(gamma, c1), c1), RSub(RDiv(c2, gamma), c2))

\* disc + c_p_i1i1 - c_i1i1 + c_p_i2i2 - c_i2i2 + 2 * sum_
PdTotal(disc, n, g1, h1, g2, h2, alpha, beta, sum_) ==
    RAdd(RAdd(RAdd(disc, RSub(PdCp1(n, g1, h1, alpha, beta),
                              PdCii(n, g1, h1))),
              RSub(PdCp2(n, g2, h2, alpha, beta), PdCii(n, g2, h2))),
         RMul(RInt(2), sum_))

\* _perturb_discrepancy(sample, i1, i2, k, disc), rows and column counted
\* from 1.
PerturbDiscrepancy(sample, i1, i2, k, disc) ==
    PdTotal(disc, Len(sample),
        PdG(sample, i1), PdH(sample, i1), PdG(sample, i2), PdH(sample, i2),
        RDiv(RAdd(RInt(1), AbsZ(sample[i2][k])),
             RAdd(RInt(1), AbsZ(sample[i1][k]))),
        RDiv(RSub(RInt(2), AbsZ(sample[i2][k])),
             RSub(RInt(2), AbsZ(sample[i1][k]))),
        RSum([j \in 1..Len(sample) |->
                IF j = i1 \/ j = i2 THEN RInt(0)
                ELSE PdTerm(RDiv(PdPair(sample[i2][k], sample[j][k]),
                                 PdPair(sample[i1][k], sample[j][k])),
                            PdC(sample, i1, j), PdC(sample, i2, j))],
             Len(sample)))

\* A sum that leaves out disc3, the term of the new point with itself.
UdTotalNoSelf(n, initial_disc, h, s, g) ==
    RAdd(RSub(initial_disc, RMul(<<2, n>>, h)), RMul(<<2, n * n>>, s))

\* initial_disc + disc1 + disc2 + disc3 for n = len(sample) + 1.
UdTotal(n, initial_disc, h, s, g) ==
    RAdd(RAdd(RSub(initial_disc, RMul(<<2, n>>, h)), RMul(<<2, n * n>>, s)),
         RMul(<<1, n * n>>, g))

\* _update_discrepancy(x_new, sample, initial_disc).
UpdateDiscrepancy(x_new, sample, initial_disc) ==
    UdTotal(Len(sample) + 1, initial_disc,
        RProd([k \in 1..Len(x_new) |-> HTerm(AbsZ(x_new[k]))], Len(x_new)),
        RSum([i \in 1..Len(sample) |->
                RProd([k \in 1..Len(x_new) |->
                         CdPair(x_new[k], sample[i][k])], Len(x_new))],
             Len(sample)),
        RProd([k \in 1..Len(x_new) |-> RAdd(RInt(1), AbsZ(x_new[k]))],
              Len(x_new)))

(***************************************************************************)
(* scale: bounds are two rows, reduced by min and max along axis 0.        *)
(***************************************************************************)
RMin(a, b) == IF RLess(b, a) THEN b ELSE a

RMax(a, b) == IF RLess(a, b) THEN b ELSE a

\* One entry of a scale that takes the first row of bounds as the lower and
\* the second as the upper bound.
ScaleEntry(x, min_, max_, reverse) ==
    IF ~reverse
    THEN RAdd(RMul(x, RSub(max_, min_)), min_)
    ELSE RDiv(RSub(x, min_), RSub(max_, min_))

\* A scale that takes the rows of bounds as given.
ScaleAsGiven(sample, bounds, reverse) ==
    [i \in 1..Len(sample) |->
        [j \in 1..Len(sample[i]) |->
            ScaleEntry(sample[i][j], bounds[1][j], bounds[2][j], reverse)]]

\* scale(sample, bounds, reverse).
Scale(sample, bounds, reverse) ==
    [i \in 1..Len(sample) |->
        [j \in 1..Len(sample[i]) |->
            ScaleEntry(sample[i][j], RMin(bounds[1][j], bounds[2][j]),
                       RMax(bounds[1][j], bounds[2][j]), reverse)]]

(***************************************************************************)
(* OptimalDesign.  The optimizer is modelled from the specification: it    *)
(* evaluates the objective at x0 and then at MaxHops points of the box,    *)
(* drawn from the generator it was seeded with (self.rng).                 *)
(***************************************************************************)
\* best_doe and best_disc of a constructor called with start_design.
OdStart(w0, start_design, niter, method, disc) ==
    [w0 EXCEPT !.eng.start_design = start_design,
               !.eng.niter = niter,
               !.eng.method = method,
               !.eng.best_doe = start_design,
               !.eng.best_disc = disc,
               !.eng.olhs_num_generated = 0]

\* OptimalDesign.__init__.
OdInit(d, start_design, niter, method, seed, w) ==
    OdStart(BaseInit([Blank EXCEPT !.kind = "OD"], d, seed, w),
            start_design, niter, method,
            IF start_design.some THEN Discrepancy(start_design.rows)
            ELSE Inf)

\* A tail of _perturb_best_doe that keeps every exchange.
KeepAlways(w, rows, row_1, row_2, col, disc) ==
    [w |-> [w EXCEPT !.eng.best_disc = disc,
                     !.eng.best_doe =
                         Design([rows EXCEPT
                                   ![row_1][col] = rows[row_2][col],
                                   ![row_2][col] = rows[row_1][col]])],
     ok |-> TRUE]

\* A tail of _perturb_best_doe that copies the entry of row_2 over the one
\* of row_1 instead of exchanging the two.
KeepOverwrite(w, rows, row_1, row_2, col, disc) ==
    IF RLess(disc, w.eng.best_disc)
    THEN [w |-> [w EXCEPT !.eng.best_disc = disc,
                          !.eng.best_doe =
                              Design([rows EXCEPT
                                        ![row_1][col] = rows[row_2][col]])],
          ok |-> TRUE]
    ELSE [w |-> w, ok |-> TRUE]

\* The tail of _perturb_best_doe: the exchange is kept if disc improved.
Keep(w, rows, row_1, row_2, col, disc) ==
    IF RLess(disc, w.eng.best_disc)
    THEN [w |-> [w EXCEPT !.eng.best_disc = disc,
                          !.eng.best_doe =
                              Design([rows EXCEPT
                                        ![row_1][col] = rows[row_2][col],
                                        ![row_2][col] = rows[row_1][col]])],
          ok |-> TRUE]
    ELSE [w |-> w, ok |-> TRUE]

\* _perturb_best_doe(x) for x = <<col, row_1, row_2>> counted from 0; a row
\* the design does not have raises IndexError.
PerturbBestDoe(w, x) ==
    IF x[2] >= Len(w.eng.best_doe.rows) \/ x[3] >= Len(w.eng.best_doe.rows)
    THEN [w |-> w, ok |-> FALSE]
    ELSE Keep(w, w.eng.best_doe.rows, x[2] + 1, x[3] + 1, x[1] + 1,
              PerturbDiscrepancy(w.eng.best_doe.rows, x[2] + 1, x[3] + 1,
                                 x[1] + 1, w.eng.best_disc))

\* The point of the box that the generator at g selects.
HopPoint(g, d, n) ==
    <<RngCell(g.stream, g.pos) % d, RngCell(g.stream, g.pos + 1) % n,
      RngCell(g.stream, g.pos + 2) % n>>

\* The hops of one optimizer run, h of them still to go, after an
\* evaluation that returned r.
RECURSIVE Hops(_, _, _)
Hops(r, n, h) ==
    IF ~r.ok \/ h = 0 THEN r
    ELSE Hops(PerturbBestDoe(Advance(r.w, 3),
                             HopPoint(GenOf(r.w.eng, r.w.cg), r.w.eng.d, n)),
              n, h - 1)

\* method(_perturb_best_doe, x0, bounds) for the default method.
Method(w, n) == Hops(PerturbBestDoe(w, <<0, 0, 0>>), n, MaxHops)

\* for _ in range(self.niter): self.method(...), after a run that
\* returned r.
RECURSIVE Iterate(_, _, _)
Iterate(r, n, it) ==
    IF ~r.ok \/ it = 0 THEN r ELSE Iterate(Method(r.w, n), n, it - 1)

\* self.best_doe = self.olhs.random(n); self.best_disc = discrepancy(...)
OdFirstDesign(w, n, s) ==
    [Advance(w, s.used) EXCEPT !.eng.best_doe = Design(s.sample),
                               !.eng.best_disc = Discrepancy(s.sample),
                               !.eng.olhs_num_generated = @ + n]

\* The end of OptimalDesign.random, r returned by the optimizer loop.
OdFinish(r, n) ==
    IF ~r.ok THEN [w |-> r.w, res |-> Raise("IndexError")]
    ELSE [w |-> [r.w EXCEPT !.eng.num_generated = @ + n],
          res |-> Ok(r.w.eng.best_doe.rows)]

\* OptimalDesign.random.
OdRandom(w, n) ==
    IF w.eng.d = 0 THEN [w |-> w, res |-> Ok([i \in 1..n |-> <<>>])]
    ELSE IF ~w.eng.best_doe.some /\ n = 0
    THEN [w |-> w, res |-> Raise("ZeroDivisionError")]
    ELSE OdFinish(
            Iterate([w |-> IF w.eng.best_doe.some THEN w
                           ELSE OdFirstDesign(w, n,
                                    OlhsSample(GenOf(w.eng, w.cg),
                                               w.eng.d, n)),
                     ok |-> TRUE],
                    n, w.eng.niter),
            n)

\* A constructor result with the cursor set to 0.
OdCursorZero(w1) == [w1 EXCEPT !.eng.num_generated = 0]

\* OptimalDesign.reset: the constructor again with d and rng_seed only.
OdReset(w) ==
    OdCursorZero(OdInit(w.eng.d, NoDesign, 1, "default", w.eng.rng_seed, w))

(***************************************************************************)
(* Dispatch on the class of the engine.                                    *)
(***************************************************************************)
World == [eng |-> eng, cg |-> cg, ent |-> ent]

\* The world before any constructor ran.
NoWorld == [eng |-> Blank, cg |-> [stream |-> 0, pos |-> 0], ent |-> 0]

\* The constructor call recorded in args.
Construct(a, w) ==
    CASE a.kind = "Sobol" -> SobolInit(a.d, a.scramble, a.seed, w)
      [] a.kind = "Halton" -> HaltonInit(a.d, a.scramble, a.seed, w)
      [] a.kind = "LHS" -> LhsInit(a.d, a.centered, a.seed, w)
      [] a.kind = "OLHS" -> OlhsInit(a.d, a.seed, w)
      [] a.kind = "OD" -> OdInit(a.d, a.start_design, a.niter, a.method,
                                 a.seed, w)
      [] a.kind = "MVN" -> MvnInit(a.d, a.seed, w)
      [] a.kind = "MN" -> MnInit(a.pvals, a.seed, w)

Random(w, n) ==
    CASE w.eng.kind = "Sobol" -> SobolRandom(w, n)
      [] w.eng.kind = "Halton" -> HaltonRandom(w, n)
      [] w.eng.kind = "LHS" -> LhsRandom(w, n)
      [] w.eng.kind = "OLHS" -> OlhsRandom(w, n)
      [] w.eng.kind = "OD" -> OdRandom(w, n)
      [] w.eng.kind = "MVN" -> MvnRandom(w, n)
      [] w.eng.kind = "MN" -> MnRandom(w, n)

RandomBase2(w, m) ==
    SobolRandomBase2(w, m)

\* fast_forward: Sobol overrides it, every other class inherits the base
\* method, which needs the num_generated attribute.
FastForward(w, n) ==
    IF w.eng.kind = "Sobol"
    THEN [w |-> SobolFastForward(w, n), res |-> Ok(<<>>)]
    ELSE IF ~w.eng.has_base
    THEN [w |-> w, res |-> Raise("AttributeError")]
    ELSE [w |-> BaseFastForward(w, n), res |-> Ok(<<>>)]

\* reset: Halton and OrthogonalLatinHypercube inherit the base method.
Reset(w) ==
    [w |-> CASE w.eng.kind = "Sobol" -> SobolReset(w)
             [] w.eng.kind = "LHS" -> LhsReset(w)
             [] w.eng.kind = "OD" -> OdReset(w)
             [] w.eng.kind = "MVN" -> MvnReset(w)
             [] w.eng.kind = "MN" -> MnReset(w)
             [] OTHER -> BaseReset(w),
     res |-> Ok(<<>>)]

(***************************************************************************)
(* Actions: one call on the engine each.                                   *)
(***************************************************************************)
\* Sobol.random(n) on engine e emits the warning on the balance properties.
SobolRandomWarns(e, n) == e.num_generated = 0 /\ ~AndPredIsZero(n)

\* The call op(arg) in world w emits a warning: Sobol.random does, called
\* directly or on the inner engine of the two distribution classes.
Warned(op, arg, w) ==
    /\ op = "random"
    /\ \/ w.eng.kind = "Sobol" /\ SobolRandomWarns(w.eng, arg)
       \/ w.eng.kind \in {"MVN", "MN"} /\ SobolRandomWarns(w.eng.engine, arg)

\* The call op(arg) returned r on the first instance.
Effect(op, arg, r) ==
    /\ eng' = r.w.eng
    /\ cg' = r.w.cg
    /\ ent' = r.w.ent
    /\ out' = [op |-> op, arg |-> arg, ok |-> r.res.ok,
               block |-> r.res.block, perms |-> r.res.perms,
               err |-> r.res.err, warn |-> Warned(op, arg, World),
               pre |-> eng, pre_cg |-> cg]
    /\ firstPerms' = IF op = "random" /\ r.res.ok /\ ~firstPerms.some
                     THEN [some |-> TRUE, perms |-> r.res.perms]
                     ELSE firstPerms
    /\ UNCHANGED <<salt, args>>

Returned(op, arg, r) == Effect(op, arg, r) /\ UNCHANGED pairVars

\* The default optimizer given an empty box (n = 0) is outside the model.
Modelled(e, n) == ~(e.kind = "OD" /\ e.d > 0 /\ e.best_doe.some /\ n = 0)

CallRandom(n) ==
    /\ Modelled(eng, n)
    /\ Returned("random", n, Random(World, n))

CallRandomBase2(m) ==
    /\ eng.kind = "Sobol"
    /\ Returned("random_base2", m, RandomBase2(World, m))

CallFastForward(n) == Returned("fast_forward", n, FastForward(World, n))

CallReset == Returned("reset", 0, Reset(World))

\* The caller draws k values from the generator it passed as seed.
CallerDraw(k) ==
    /\ args.seed.kind = "gen"
    /\ cg' = [cg EXCEPT !.pos = @ + k]
    /\ out' = [op |-> "caller_draw", arg |-> k, ok |-> TRUE, block |-> <<>>,
               perms |-> <<>>, err |-> "", warn |-> FALSE, pre |-> eng,
               pre_cg |-> cg]
    /\ UNCHANGED <<eng, ent, salt, args, firstPerms>>
    /\ UNCHANGED pairVars

\* The state after the constructor call a returned.
InitWith(a) ==
    LET w == Construct(a, NoWorld)
    IN /\ args = a
       /\ eng = w.eng
       /\ cg = w.cg
       /\ ent = w.ent
       /\ out = [op |-> "init", arg |-> 0, ok |-> TRUE, block |-> <<>>,
                 perms |-> <<>>, err |-> "", warn |-> FALSE, pre |-> w.eng,
                 pre_cg |-> w.cg]
       /\ firstPerms = [some |-> FALSE, perms |-> <<>>]
       /\ nsteps = 0
       /\ engB = Blank
       /\ calls = <<>>
       /\ logA = <<>>
       /\ logB = <<>>

Seeds == {NoneSeed, IntSeed(1), GenSeed}

Args(kind, d, seed, scramble) ==
    [kind |-> kind, d |-> d, seed |-> seed, scramble |-> scramble,
     centered |-> FALSE, start_design |-> NoDesign, niter |-> 1,
     method |-> "default", pvals |-> <<>>]

SobolArgs ==
    {Args("Sobol", d, seed, scramble) :
        d \in 1..2, seed \in Seeds, scramble \in BOOLEAN}

HaltonArgs ==
    {Args("Halton", d, seed, scramble) :
        d \in 1..2, seed \in Seeds, scramble \in BOOLEAN}

LhsArgs ==
    {[Args("LHS", d, seed, FALSE) EXCEPT !.centered = c] :
        d \in 1..2, seed \in Seeds, c \in BOOLEAN}

OlhsArgs == {Args("OLHS", d, seed, FALSE) : d \in 1..2, seed \in Seeds}

\* A start design of two rows.
StartDesign(d) ==
    Design(<<[j \in 1..d |-> <<0, 1>>], [j \in 1..d |-> <<1, 2>>]>>)

OdArgs ==
    {[Args("OD", d, seed, FALSE) EXCEPT !.niter = niter] :
        d \in 0..2, seed \in Seeds, niter \in 1..2}
    \cup
    {[Args("OD", 2, seed, FALSE) EXCEPT !.start_design = StartDesign(2)] :
        seed \in Seeds}

MvnArgs == {Args("MVN", d, seed, TRUE) : d \in 1..2, seed \in Seeds}

\* The default vector of two categories.
Pvals == <<<<1, 4>>, <<3, 4>>>>

MnArgs == {[Args("MN", 1, seed, TRUE) EXCEPT !.pvals = Pvals] : seed \in Seeds}

\* MultinomialQMC constructor calls that return, over the vectors above.
MnPvalsArgs ==
    {[Args("MN", 1, seed, TRUE) EXCEPT !.pvals = pvals] :
        seed \in Seeds, pvals \in {p \in PvalsChoices : PvalsAccepted(p)}}

AllArgs ==
    SobolArgs \cup HaltonArgs \cup LhsArgs \cup OlhsArgs \cup OdArgs
    \cup MvnArgs \cup MnArgs

(***************************************************************************)
(* The Sobol engine alone, its cursor capped at MaxGen.                    *)
(***************************************************************************)
InitSobol ==
    /\ salt \in 0..MaxSalt
    /\ \E a \in SobolArgs : InitWith(a)

NextSobol ==
    \/ \E n \in 0..(MaxN + 1) :
          /\ eng.num_generated + n <= MaxGen
          /\ CallRandom(n)
          /\ UNCHANGED nsteps
    \/ \E m \in 0..(MaxM + 1) :
          /\ eng.num_generated + 2^m <= MaxGen
          /\ CallRandomBase2(m)
          /\ UNCHANGED nsteps
    \/ \E n \in 0..MaxN :
          /\ eng.num_generated + n <= MaxGen
          /\ CallFastForward(n)
          /\ UNCHANGED nsteps
    \/ CallReset /\ UNCHANGED nsteps

SpecSobol == InitSobol /\ [][NextSobol]_vars

(***************************************************************************)
(* Every engine class, MaxSteps calls per behaviour.                       *)
(***************************************************************************)
Init ==
    /\ salt \in 0..MaxSalt
    /\ \E a \in AllArgs : InitWith(a)

Tick ==
    /\ nsteps < MaxSteps
    /\ nsteps' = nsteps + 1

Next ==
    \/ \E n \in 0..MaxN : CallRandom(n) /\ Tick
    \/ \E m \in 0..MaxM : CallRandomBase2(m) /\ Tick
    \/ \E n \in 0..MaxN : CallFastForward(n) /\ Tick
    \/ CallReset /\ Tick
    \/ \E k \in 1..MaxN : CallerDraw(k) /\ Tick

Spec == Init /\ [][Next]_vars

(***************************************************************************)
(* Reference definitions for the Sobol claims.                             *)
(***************************************************************************)
GrayCode(i) == Xor(i, i \div 2)

\* XOR of the columns col[k+1] over the set bits k of g, from bit k on.
RECURSIVE GrayXor(_, _, _)
GrayXor(col, g, k) ==
    IF g = 0 THEN 0
    ELSE Xor(IF g % 2 = 1 THEN col[k + 1] ELSE 0,
             GrayXor(col, g \div 2, k + 1))

\* The accumulator of sequence position i.
QuasiAt(e, i) ==
    [j \in 1..e.d |-> Xor(e.shift[j], GrayXor(e.sv[j], GrayCode(i), 0))]

\* The point at sequence position i: position 0 is shift / 2^MAXBIT.
PointAt(e, i) == ToUnit(QuasiAt(e, i))

IsPowerOfTwo(x) == \E k \in 0..MAXBIT : x = 2^k

(***************************************************************************)
(* C3: every Sobol random(n) call returns the points at sequence           *)
(* positions [prev, prev + n), prev the cursor before the call, and two    *)
(* consecutive calls random(n1), random(n2) return together the block of   *)
(* one call random(n1 + n2) and leave the same engine.                     *)
(***************************************************************************)
SobolSplitOrdering ==
    eng.kind = "Sobol" =>
      /\ (out.op = "random" /\ out.ok) =>
            out.block = [i \in 1..out.arg |->
                            PointAt(eng, out.pre.num_generated + i - 1)]
      /\ \A n1 \in 0..MaxN, n2 \in 0..MaxN :
            LET a == Random(World, n1)
                b == Random(a.w, n2)
                c == Random(World, n1 + n2)
            IN /\ a.res.block \o b.res.block = c.res.block
               /\ b.w.eng = c.w.eng

\* A scrambled engine returned two points from cursor 1, where the cached
\* first point had been returned or skipped.
SobolSplitWitness ==
    /\ eng.kind = "Sobol" /\ eng.scramble
    /\ \E j \in 1..eng.d : eng.shift[j] # 0
    /\ out.op = "random" /\ out.ok
    /\ out.pre.num_generated = 1 /\ out.arg = 2

(***************************************************************************)
(* C6: random_base2(m) raises ValueError exactly when num_generated + 2^m  *)
(* is not a power of two, leaving the engine as it was; otherwise it       *)
(* returns 2^m points and advances num_generated by 2^m.                   *)
(***************************************************************************)
RandomBase2Alignment ==
    (eng.kind = "Sobol" /\ out.op = "random_base2") =>
      LET n == 2^out.arg
      IN /\ ~out.ok <=> ~IsPowerOfTwo(out.pre.num_generated + n)
         /\ ~out.ok => (out.err = "ValueError" /\ eng = out.pre)
         /\ out.ok => /\ Len(out.block) = n
                      /\ eng.num_generated = out.pre.num_generated + n

\* random_base2 was refused at a non-zero cursor.
RandomBase2RefusedWitness ==
    /\ eng.kind = "Sobol" /\ out.op = "random_base2" /\ ~out.ok
    /\ eng.num_generated = 2 /\ out.arg = 0

(***************************************************************************)
(* C7 as amended: quasi is shift XOR the columns of V over the set bits    *)
(* of the Gray code of max(num_generated - 1, 0), the position of the      *)
(* last point returned or skipped; after reset quasi = shift and           *)
(* num_generated = 0.                                                      *)
(***************************************************************************)
QuasiTracksLastPoint ==
    eng.kind = "Sobol" =>
      /\ eng.quasi = QuasiAt(eng, Max(eng.num_generated - 1, 0))
      /\ out.op = "reset" => (eng.quasi = eng.shift /\ eng.num_generated = 0)

\* A scrambled engine was fast-forwarded past the third point.
QuasiTracksWitness ==
    /\ eng.kind = "Sobol" /\ eng.scramble
    /\ out.op = "fast_forward" /\ out.arg > 0
    /\ eng.num_generated >= 3

\* C7 as stated: quasi follows the Gray code of num_generated itself.
QuasiTracksCursor ==
    eng.kind = "Sobol" =>
      /\ eng.quasi = QuasiAt(eng, eng.num_generated)
      /\ out.op = "reset" => (eng.quasi = eng.shift /\ eng.num_generated = 0)

(***************************************************************************)
(* van_der_corput called by itself and through Halton engines.  Indices    *)
(* stay below 2^NDigits, the integers whose digits the bounded loop        *)
(* computes in full.                                                       *)
(***************************************************************************)
\* The generator check_random_state(seed) returns to van_der_corput when
\* it is handed the seed of the constructor call.
VdcGen(seed, w) ==
    IF seed.kind = "gen" THEN w.cg
    ELSE IF seed.kind = "int" THEN [stream |-> seed.v, pos |-> 0]
    ELSE [stream |-> EntropyStream(w.ent), pos |-> 0]

\* The outputs the permutations of one call take from the generator.
VdcUsed(base, scramble) == IF scramble THEN NDigits * (base - 1) ELSE 0

\* van_der_corput(n, base, start_index, scramble, seed=args.seed) returned.
CallVanDerCorput(n, base, start_index, scramble) ==
    /\ start_index + n < 2^NDigits
    /\ out' = [op |-> "van_der_corput",
               arg |-> [n |-> n, base |-> base, start_index |-> start_index,
                        scramble |-> scramble],
               ok |-> TRUE,
               block |-> VanDerCorput(n, base, start_index, scramble,
                                      VdcGen(args.seed, World)),
               perms |-> VdcPerms(base, scramble, VdcGen(args.seed, World)),
               err |-> "", warn |-> FALSE, pre |-> eng, pre_cg |-> cg]
    /\ cg' = IF args.seed.kind = "gen"
             THEN [cg EXCEPT !.pos = @ + VdcUsed(base, scramble)]
             ELSE cg
    /\ ent' = IF args.seed.kind = "none" THEN ent + 1 ELSE ent
    /\ UNCHANGED <<eng, salt, args, firstPerms>>
    /\ UNCHANGED pairVars

InitVdc ==
    /\ salt \in 0..MaxSalt
    /\ \E a \in HaltonArgs : InitWith(a)

TickVdc ==
    /\ nsteps < MaxVdcSteps
    /\ nsteps' = nsteps + 1

NextVdc ==
    \/ \E n \in {1, MaxVdcN} :
          /\ eng.num_generated + n < 2^NDigits
          /\ CallRandom(n)
          /\ TickVdc
    \/ /\ eng.num_generated + 1 < 2^NDigits
       /\ CallFastForward(1)
       /\ TickVdc
    \/ CallReset /\ TickVdc
    \/ \E base \in {Primes[j] : j \in 1..Len(Primes)}, k \in {0, MaxN},
          scramble \in BOOLEAN :
          CallVanDerCorput(MaxVdcN, base, k, scramble) /\ TickVdc

SpecVdc == InitVdc /\ [][NextVdc]_vars

(***************************************************************************)
(* OptimalDesign engines by themselves.                                    *)
(***************************************************************************)
InitOd ==
    /\ salt \in 0..MaxSalt
    /\ \E a \in OdArgs : InitWith(a)

TickOd ==
    /\ nsteps < MaxOdSteps
    /\ nsteps' = nsteps + 1

NextOd ==
    \/ \E n \in {1, MaxN} : CallRandom(n) /\ TickOd
    \/ CallReset /\ TickOd
    \/ CallerDraw(1) /\ TickOd

SpecOd == InitOd /\ [][NextOd]_vars

(***************************************************************************)
(* The two Latin hypercube classes by themselves.                          *)
(***************************************************************************)
InitLatin ==
    /\ salt \in 0..MaxSalt
    /\ \E a \in LhsArgs \cup OlhsArgs : InitWith(a)

NextLatin ==
    \/ \E n \in 0..(MaxN + 1) : CallRandom(n) /\ Tick
    \/ CallFastForward(1) /\ Tick
    \/ CallReset /\ Tick
    \/ CallerDraw(1) /\ Tick

SpecLatin == InitLatin /\ [][NextLatin]_vars

(***************************************************************************)
(* MultinomialQMC engines by themselves, over every realisation of the     *)
(* generator, the one with all bits set included.                          *)
(***************************************************************************)
InitMn ==
    /\ salt \in 0..(MaxSalt + 1)
    /\ \E a \in MnPvalsArgs : InitWith(a)

NextMn ==
    \/ \E n \in 0..(MaxN + 1) : CallRandom(n) /\ Tick
    \/ CallReset /\ Tick
    \/ CallerDraw(1) /\ Tick

SpecMn == InitMn /\ [][NextMn]_vars

(***************************************************************************)
(* Reference definitions for the claims on every engine class.             *)
(***************************************************************************)
\* One call of a call sequence.
Call(op, arg) == [op |-> op, arg |-> arg]

Apply(w, c) ==
    CASE c.op = "random" -> Random(w, c.arg)
      [] c.op = "fast_forward" -> FastForward(w, c.arg)
      [] c.op = "reset" -> Reset(w)

\* The calls a call sequence is made of.
Calls ==
    {Call("random", n) : n \in 1..MaxN}
    \cup {Call("fast_forward", n) : n \in 1..MaxN}
    \cup {Call("reset", 0)}

\* Call sequences of one and of two calls.
CallSeqs == {<<c>> : c \in Calls} \cup {<<c1, c2>> : c1, c2 \in Calls}

\* What the calls of C return, one after the other, from world w on;
\* r is the return of the call before.
RECURSIVE Returns(_, _, _)
Returns(r, C, k) ==
    IF k > Len(C) THEN <<>>
    ELSE <<r.res>> \o Returns(Apply(r.w, C[k + 1]), C, k + 1)

Run(w, C) == Returns(Apply(w, C[1]), C, 1)

\* The classes whose random returns points of the unit hypercube.
PointEngines == {"Sobol", "Halton", "LHS", "OLHS", "OD"}

(***************************************************************************)
(* Two instances constructed with the same arguments, the second one at    *)
(* any time after the first, each driven through the same call sequence.   *)
(* The sequence is fixed by whichever instance is ahead; logA and logB     *)
(* hold what the calls returned.                                           *)
(***************************************************************************)
WorldB == [eng |-> engB, cg |-> cg, ent |-> ent]

PairArgs ==
    {a \in AllArgs : /\ a.seed.kind \in {"int", "gen"}
                     /\ a.niter = 1
                     /\ a.d = (IF a.kind = "OD" THEN 2 ELSE 1)}

\* The calls the two instances are driven with.
PairCalls ==
    {Call("random", MaxN), Call("fast_forward", 1), Call("reset", 0)}

InitPair ==
    /\ salt \in 0..MaxSalt
    /\ \E a \in PairArgs : InitWith(a)

\* The constructor of the second instance returned w.
ConstructedB(w) ==
    /\ engB.kind = "none"
    /\ engB' = w.eng
    /\ cg' = w.cg
    /\ ent' = w.ent
    /\ UNCHANGED <<eng, salt, args, out, firstPerms, nsteps, calls, logA,
                   logB>>

ConstructB == ConstructedB(Construct(args, WorldB))

\* The call c is the next one for an instance that made k calls.
NextCall(c, k) ==
    /\ k < MaxPairCalls
    /\ k < Len(calls) => c = calls[k + 1]

Extended(c, k) == IF k < Len(calls) THEN calls ELSE Append(calls, c)

Result(o) == [ok |-> o.ok, block |-> o.block, perms |-> o.perms,
              err |-> o.err]

DriveA(c) ==
    /\ NextCall(c, Len(logA))
    /\ Effect(c.op, c.arg, Apply(World, c))
    /\ logA' = Append(logA, Result(out'))
    /\ calls' = Extended(c, Len(logA))
    /\ UNCHANGED <<engB, logB, nsteps>>

\* The call op(arg) returned r on the second instance.
EffectB(op, arg, r) ==
    /\ engB' = r.w.eng
    /\ cg' = r.w.cg
    /\ ent' = r.w.ent
    /\ out' = [op |-> op, arg |-> arg, ok |-> r.res.ok,
               block |-> r.res.block, perms |-> r.res.perms,
               err |-> r.res.err, warn |-> Warned(op, arg, WorldB),
               pre |-> engB, pre_cg |-> cg]
    /\ UNCHANGED <<eng, salt, args, firstPerms>>

DriveB(c) ==
    /\ engB.kind # "none"
    /\ NextCall(c, Len(logB))
    /\ EffectB(c.op, c.arg, Apply(WorldB, c))
    /\ logB' = Append(logB, Result(out'))
    /\ calls' = Extended(c, Len(logB))
    /\ UNCHANGED <<logA, nsteps>>

NextPair ==
    \/ ConstructB
    \/ \E c \in PairCalls : DriveA(c)
    \/ \E c \in PairCalls : DriveB(c)

SpecPair == InitPair /\ [][NextPair]_vars

\* The calls both instances have made returned the same.
SameReturns ==
    \A i \in 1..Min(Len(logA), Len(logB)) : logA[i] = logB[i]

(***************************************************************************)
(* C4, as stated: two instances constructed with the same seed, an integer *)
(* or a generator instance passed by reference, and the same other         *)
(* arguments return the same blocks for the same sequence of calls,        *)
(* whatever the order in which they are constructed and driven.            *)
(***************************************************************************)
SameSeedSameBlocks == args.seed.kind \in {"int", "gen"} => SameReturns

(***************************************************************************)
(* C4, amended: two instances constructed with the same integer seed and   *)
(* the same other arguments return the same blocks for the same sequence   *)
(* of calls, whatever the order in which they are constructed and driven.  *)
(***************************************************************************)
IntSeedSameBlocks == args.seed.kind = "int" => SameReturns

\* Two Latin hypercube instances with an integer seed both returned a
\* block of MaxN points and then a second result.
IntSeedPairWitness ==
    /\ args.seed.kind = "int"
    /\ args.kind = "LHS"
    /\ ~args.centered
    /\ Len(logA) = MaxPairCalls
    /\ Len(logB) = MaxPairCalls
    /\ calls[1] = Call("random", MaxN)
    /\ logB[1].ok
    /\ Len(logB[1].block) = MaxN

(***************************************************************************)
(* C1: for an engine constructed with an integer seed, in every state      *)
(* reached by random / fast_forward / reset calls, reset() followed by a   *)
(* call sequence C returns what C returns on an engine freshly constructed *)
(* with the same constructor arguments.                                    *)
(***************************************************************************)
ResetIsFresh ==
    args.seed.kind = "int" =>
        \A C \in CallSeqs :
            Run(Reset(World).w, C) = Run(Construct(args, NoWorld), C)

(***************************************************************************)
(* C2: on a freshly constructed or reset engine of any class,              *)
(* fast_forward(n) succeeds and a following random(m) returns the last m   *)
(* rows of random(n + m) on an identical engine.                           *)
(***************************************************************************)
FastForwardSkips ==
    out.op \in {"init", "reset"} =>
        \A n \in 0..MaxN, m \in 1..MaxN :
            /\ FastForward(World, n).res.ok
            /\ (/\ Random(FastForward(World, n).w, m).res.ok
                /\ Random(World, n + m).res.ok)
               => Random(FastForward(World, n).w, m).res.block
                  = LastRows(Random(World, n + m).res.block, m)

(***************************************************************************)
(* C5: every block returned by random(n) of Sobol, Halton,                 *)
(* LatinHypercube, OrthogonalLatinHypercube and OptimalDesign has n rows   *)
(* of d entries, each in [0, 1).                                           *)
(***************************************************************************)
BlockShape ==
    (out.op = "random" /\ out.ok /\ eng.kind \in PointEngines) =>
        /\ Len(out.block) = out.arg
        /\ \A i \in 1..Len(out.block) :
              /\ Len(out.block[i]) = eng.d
              /\ \A j \in 1..Len(out.block[i]) : InUnit(out.block[i][j])

(***************************************************************************)
(* C8: every successful random(n) or fast_forward(n) call, on every        *)
(* class, raises num_generated by n, and fast_forward and num_generated    *)
(* are there on every engine.                                              *)
(***************************************************************************)
CursorAdvances ==
    /\ out.op = "fast_forward" => out.ok
    /\ (out.op \in {"random", "fast_forward"} /\ out.ok) =>
          /\ eng.has_base
          /\ eng.num_generated = out.pre.num_generated + out.arg

(***************************************************************************)
(* C9: a call that fails with an error leaves the engine, the generator    *)
(* it draws from included, as it was before the call.                      *)
(***************************************************************************)
ErrorLeavesState ==
    ~out.ok => (eng = out.pre /\ cg = out.pre_cg)

(***************************************************************************)
(* C10: every random call of a scrambled Halton engine uses the digit      *)
(* permutations of the first call, for every kind of seed and whatever the *)
(* caller draws in between, and random(n) followed by random(m) returns    *)
(* the block of random(n + m).                                             *)
(***************************************************************************)
HaltonPermsStable ==
    (eng.kind = "Halton" /\ eng.scramble) =>
        /\ (out.op = "random" /\ out.ok) => out.perms = firstPerms.perms
        /\ \A n \in 0..MaxN, m \in 0..MaxN :
              Random(World, n).res.block
                \o Random(Random(World, n).w, m).res.block
              = Random(World, n + m).res.block

(***************************************************************************)
(* Reference definitions for the van der Corput claims.                    *)
(***************************************************************************)
\* The base-b radical inverse of k: the digits of k mirrored at the point.
RECURSIVE RadicalInverse(_, _)
RadicalInverse(k, b) ==
    IF k = 0 THEN <<0, 1>>
    ELSE LET r == RadicalInverse(k \div b, b)
         IN Frac(((k % b) * r[2]) + r[1], b * r[2])

Reduced(x) == Frac(x[1], x[2])

(***************************************************************************)
(* C11: unscrambled van_der_corput(n, base, start_index) returns at        *)
(* position i the radical inverse of start_index + i in that base;         *)
(* unscrambled Halton.random puts in row i, column j the radical inverse   *)
(* of the cursor + i in the (j+1)-th prime base; and d = 2, n = 5 from     *)
(* cursor 0 gives (0,0), (1/2,1/3), (1/4,2/3), (3/4,1/9), (1/8,4/9).        *)
(***************************************************************************)
VdcRadicalInverse ==
    /\ (out.op = "van_der_corput" /\ ~out.arg.scramble) =>
          /\ Len(out.block) = out.arg.n
          /\ \A i \in 1..Len(out.block) :
                Reduced(out.block[i])
                = RadicalInverse(out.arg.start_index + i - 1, out.arg.base)
    /\ (out.op = "random" /\ eng.kind = "Halton" /\ ~eng.scramble) =>
          /\ Len(out.block) = out.arg
          /\ \A i \in 1..Len(out.block) : \A j \in 1..eng.d :
                Reduced(out.block[i][j])
                = RadicalInverse(out.pre.num_generated + i - 1, Primes[j])
    /\ (/\ out.op = "random" /\ eng.kind = "Halton" /\ ~eng.scramble
        /\ eng.d = 2 /\ out.arg = 5 /\ out.pre.num_generated = 0) =>
          [i \in 1..5 |-> [j \in 1..2 |-> Reduced(out.block[i][j])]]
          = << <<<<0, 1>>, <<0, 1>>>>, <<<<1, 2>>, <<1, 3>>>>,
               <<<<1, 4>>, <<2, 3>>>>, <<<<3, 4>>, <<1, 9>>>>,
               <<<<1, 8>>, <<4, 9>>>> >>

\* An unscrambled Halton engine of two dimensions returned five points
\* from cursor 0.
VdcRadicalInverseWitness ==
    /\ out.op = "random" /\ eng.kind = "Halton" /\ ~eng.scramble
    /\ eng.d = 2 /\ out.arg = 5 /\ out.pre.num_generated = 0
    /\ Len(out.block) = 5

\* Digit k of a returned value with numerator num over base^NDigits.
DigitAt(num, k, base) == (num \div (base^(NDigits - k))) % base

\* The running quotient of the point of index idx when iteration k starts,
\* computed from the digits the call returned.
RECURSIVE QuotientAt(_, _, _, _)
QuotientAt(idx, k, base, num) ==
    IF k = 1 THEN <<idx, 1>>
    ELSE LET q == QuotientAt(idx, k - 1, base, num)
         IN <<q[1] - (DigitAt(num, k - 1, base) * q[2]), q[2] * base>>

IsPermutation(p, base) ==
    /\ Len(p) = base
    /\ {p[i] : i \in 1..base} = 0..(base - 1)

(***************************************************************************)
(* C12 as stated: a scrambled van_der_corput call draws exactly one        *)
(* permutation of 0..base-1 and applies it to every digit position of      *)
(* every point.                                                            *)
(***************************************************************************)
VdcOnePermutation ==
    (out.op = "van_der_corput" /\ out.arg.scramble) =>
        /\ \A k \in 1..Len(out.perms) : out.perms[k] = out.perms[1]
        /\ args.seed.kind = "gen" =>
              cg.pos = out.pre_cg.pos + (out.arg.base - 1)

(***************************************************************************)
(* C12, amended: a scrambled van_der_corput call draws one permutation of  *)
(* 0..base-1 at every iteration of the digit loop, and the permutation of  *)
(* an iteration is applied to that digit of every point of the sequence.   *)
(***************************************************************************)
VdcPermutationPerDigit ==
    (out.op = "van_der_corput" /\ out.arg.scramble) =>
        /\ Len(out.perms) = NDigits
        /\ \A k \in 1..NDigits : IsPermutation(out.perms[k], out.arg.base)
        /\ args.seed.kind = "gen" =>
              cg.pos = out.pre_cg.pos + (NDigits * (out.arg.base - 1))
        /\ \A i \in 1..Len(out.block) : \A k \in 1..NDigits :
              LET q == QuotientAt(out.arg.start_index + i - 1, k,
                                  out.arg.base, out.block[i][1])
              IN DigitAt(out.block[i][1], k, out.arg.base)
                 = out.perms[k][1 + ((q[1] \div q[2]) % out.arg.base)]

\* A scrambled call returned whose first two iterations drew different
\* permutations.
VdcPermutationPerDigitWitness ==
    /\ out.op = "van_der_corput" /\ out.arg.scramble
    /\ Len(out.block) = MaxVdcN
    /\ out.perms[1] # out.perms[2]

(***************************************************************************)
(* C13: no random, random_base2, fast_forward or reset call on a Sobol     *)
(* engine changes the direction matrix _sv, the scramble mask _shift or    *)
(* the cached first point; reset only sets quasi to shift and              *)
(* num_generated to 0.                                                     *)
(***************************************************************************)
SobolConstructionFixed ==
    (eng.kind = "Sobol"
     /\ out.op \in {"random", "random_base2", "fast_forward", "reset"}) =>
        /\ eng.sv = out.pre.sv
        /\ eng.shift = out.pre.shift
        /\ eng.first_point = out.pre.first_point
        /\ eng.first_point = ToUnit(eng.shift)
        /\ ~eng.scramble =>
              /\ eng.sv = InitializeV(eng.d)
              /\ eng.shift = [j \in 1..eng.d |-> 0]
        /\ out.op = "reset" =>
              eng = [out.pre EXCEPT !.quasi = out.pre.shift,
                                    !.num_generated = 0]

\* A scrambled engine that had returned points was reset.
SobolConstructionFixedWitness ==
    /\ eng.kind = "Sobol" /\ eng.scramble /\ eng.d >= 1
    /\ out.op = "reset"
    /\ out.pre.num_generated > 0
    /\ out.pre.quasi # out.pre.shift
    /\ eng.shift # [j \in 1..eng.d |-> 0]

(***************************************************************************)
(* C14: Sobol.random(n) emits the balance warning on every call whose n    *)
(* is not a power of two, at any cursor position and not only at           *)
(* num_generated = 0, and still returns n points.                          *)
(***************************************************************************)
SobolWarnsAtAnyCursor ==
    (/\ eng.kind = "Sobol" /\ out.op = "random"
     /\ out.arg >= 1 /\ ~IsPowerOfTwo(out.arg)) =>
        /\ out.warn
        /\ out.ok /\ Len(out.block) = out.arg

(***************************************************************************)
(* Reference definitions for the OptimalDesign claims.                     *)
(***************************************************************************)
\* a <= b for discrepancies, np.inf included.
RLeq(a, b) ==
    IF b = Inf THEN TRUE
    ELSE IF a = Inf THEN FALSE
    ELSE ~RLess(b, a)

\* The points of the box [0, d-1] x [0, n-1] x [0, n-1].
Box(d, n) == (0..(d - 1)) \X (0..(n - 1)) \X (0..(n - 1))

(***************************************************************************)
(* C15: best_disc of an OptimalDesign engine never increases across the    *)
(* evaluations of the objective and across successive random calls; an     *)
(* exchange is kept only when the candidate discrepancy is strictly less   *)
(* than best_disc; and best_disc after random is at most the centered      *)
(* discrepancy of the initial design.                                      *)
(***************************************************************************)
BestDiscNeverIncreases ==
    /\ (eng.kind = "OD" /\ out.op = "random") =>
          /\ RLeq(eng.best_disc, out.pre.best_disc)
          /\ (out.pre.best_doe.some /\ eng.best_doe # out.pre.best_doe) =>
                RLess(eng.best_disc, out.pre.best_disc)
          /\ (~out.pre.best_doe.some /\ eng.best_doe.some) =>
                RLeq(eng.best_disc,
                     Discrepancy(OlhsSample(GenOf(out.pre, out.pre_cg),
                                            eng.d, out.arg).sample))
          /\ eng.start_design.some =>
                RLeq(eng.best_disc, Discrepancy(eng.start_design.rows))
    /\ (eng.kind = "OD" /\ eng.best_doe.some) =>
          \A x \in Box(eng.d, Len(eng.best_doe.rows)) :
              LET r == PerturbBestDoe(World, x)
              IN /\ RLeq(r.w.eng.best_disc, eng.best_disc)
                 /\ r.w.eng.best_doe # eng.best_doe =>
                       RLess(r.w.eng.best_disc, eng.best_disc)

\* A random call on an engine that had a design kept an exchange.
BestDiscWitness ==
    /\ eng.kind = "OD" /\ out.op = "random" /\ out.ok
    /\ out.pre.best_doe.some
    /\ eng.best_doe # out.pre.best_doe
    /\ RLess(eng.best_disc, out.pre.best_disc)

(***************************************************************************)
(* C16: OptimalDesign.reset returns the engine to its state after          *)
(* construction: start_design, niter and method are those the caller gave, *)
(* and the first random after reset starts from the caller's start_design. *)
(***************************************************************************)
OdResetKeepsConfiguration ==
    (eng.kind = "OD" /\ out.op = "reset") =>
        /\ eng.start_design = args.start_design
        /\ eng.niter = args.niter
        /\ eng.method = args.method
        /\ eng.best_doe = args.start_design

(***************************************************************************)
(* Reference definitions for the Latin hypercube claims.                   *)
(***************************************************************************)
\* The stratum [s/n, (s+1)/n) of a coordinate x in [0, 1).
Stratum(x, n) == (x[1] * n) \div x[2]

\* The rows of a block whose column j lies in stratum s.
InStratum(block, j, s) ==
    {i \in 1..Len(block) : Stratum(block[i][j], Len(block)) = s}

(***************************************************************************)
(* C17: for every n >= 1, every dimension and every outcome of the         *)
(* generator, each column of OrthogonalLatinHypercube.random(n) has        *)
(* exactly one point in each stratum [j/n, (j+1)/n), j = 0..n-1.           *)
(***************************************************************************)
OlhsOnePerStratum ==
    (eng.kind = "OLHS" /\ out.op = "random" /\ out.arg >= 1) =>
        /\ out.ok
        /\ Len(out.block) = out.arg
        /\ \A j \in 1..eng.d : \A s \in 0..(out.arg - 1) :
              Cardinality(InStratum(out.block, j, s)) = 1

\* A sample of two dimensions and more than one point whose first row is
\* not in the first stratum: the shuffle moved it.
OlhsOnePerStratumWitness ==
    /\ eng.kind = "OLHS" /\ eng.d = 2
    /\ out.op = "random" /\ out.ok /\ out.arg >= 2
    /\ Stratum(out.block[1][1], out.arg) # 0
    /\ Stratum(out.block[1][2], out.arg) # Stratum(out.block[1][1], out.arg)

(***************************************************************************)
(* C18: for every n >= 1, n = 1 included, LatinHypercube.random(n)         *)
(* succeeds and each coordinate is (q - r) / n with q in 1..n and r in     *)
(* [0, 1), r = 1/2 when centered.                                          *)
(***************************************************************************)
LhsSucceedsFromOne ==
    (eng.kind = "LHS" /\ out.op = "random" /\ out.arg >= 1) =>
        /\ out.ok
        /\ Len(out.block) = out.arg
        /\ \A i \in 1..Len(out.block) : \A j \in 1..eng.d :
              \E q \in 1..out.arg :
                  /\ RLess(Frac(q - 1, out.arg), out.block[i][j])
                  /\ RLeq(out.block[i][j], Frac(q, out.arg))
                  /\ eng.centered =>
                        out.block[i][j] = Frac((2 * q) - 1, 2 * out.arg)

(***************************************************************************)
(* Reference definitions for the MultinomialQMC claims.                    *)
(***************************************************************************)
\* The base draws of the random call recorded in out.
BaseDraws ==
    LET r == SobolRandom([eng |-> out.pre.engine, cg |-> out.pre_cg,
                          ent |-> ent], out.arg)
    IN [i \in 1..Len(r.res.block) |-> r.res.block[i][1]]

\* The categories whose cumulative probability is above the draw u.
Above(u, pvals) == {k \in 1..Len(pvals) : BelowCumulative(u, pvals, k)}

\* The smallest category of a non-empty set.
Smallest(S) == CHOOSE k \in S : \A l \in S : k <= l

RECURSIVE Total(_, _)
Total(v, k) == IF k = 0 THEN 0 ELSE v[k] + Total(v, k - 1)

AloneReturns ==
    Run(Construct(args, NoWorld), SubSeq(calls, 1, Len(logA)))

\* The first instance returned what it returns alone.
Undisturbed == Len(logA) > 0 => logA = AloneReturns

(***************************************************************************)
(* C20 as stated: the blocks an engine returns are the same whatever       *)
(* random, fast_forward and reset calls are interleaved on another engine, *)
(* also when both were constructed from the same generator instance, the   *)
(* inner engines of OptimalDesign and MultivariateNormalQMC included.      *)
(***************************************************************************)
InterleavingIndependent ==
    args.seed.kind \in {"int", "gen"} => Undisturbed

(***************************************************************************)
(* C20, amended: the blocks an engine constructed with an integer seed     *)
(* returns are the same whatever random, fast_forward and reset calls are  *)
(* interleaved on another engine, the inner engines of OptimalDesign and   *)
(* MultivariateNormalQMC included.  Engines constructed from the same      *)
(* generator instance draw from that one generator.                        *)
(***************************************************************************)
IntSeedInterleavingIndependent ==
    args.seed.kind = "int" => Undisturbed

\* A MultivariateNormalQMC or OptimalDesign instance with an integer seed
\* returned two results while a second instance was constructed and driven.
InterleavingWitness ==
    /\ args.seed.kind = "int"
    /\ args.kind \in {"MVN", "OD"}
    /\ engB.kind = args.kind
    /\ Len(logA) = MaxPairCalls
    /\ Len(logB) >= 1
    /\ calls[1] = Call("random", MaxN)
    /\ logA[1].ok /\ logA[2].ok
    /\ logA = AloneReturns

(***************************************************************************)
(* Engines whose caller writes into the blocks it was handed.  A returned  *)
(* block that is the engine's own array (Sobol._first_point returned by    *)
(* random(1) at cursor 0, OptimalDesign.best_doe, which is the caller's    *)
(* start_design array until an exchange is kept) changes with it.          *)
(***************************************************************************)
\* The value the caller writes: 1/4.
WrittenValue == <<1, 4>>

\* The block of the call o is the array the Sobol engine keeps in
\* _first_point: sample = self._first_point.
SharesFirstPoint(e, o) ==
    /\ e.kind = "Sobol" /\ o.op = "random" /\ o.ok
    /\ o.arg = 1 /\ o.pre.num_generated = 0

\* The block of the call o is the array self.best_doe: return self.best_doe.
SharesBestDoe(e, o) ==
    /\ e.kind = "OD" /\ o.op = "random" /\ o.ok /\ e.d > 0

\* best_doe is still the array the caller passed as start_design.
IsStartDesign(e) == e.start_design.some /\ e.best_doe = e.start_design

\* The engine after the caller wrote v at row i, column j of the block that
\* the call o returned.
Written(e, o, i, j, v) ==
    IF SharesFirstPoint(e, o)
    THEN [e EXCEPT !.first_point[j] = v]
    ELSE IF SharesBestDoe(e, o)
    THEN [e EXCEPT !.best_doe.rows[i][j] = v,
                   !.start_design = IF IsStartDesign(e)
                                    THEN [@ EXCEPT !.rows[i][j] = v]
                                    ELSE @]
    ELSE e

\* The caller assigns block[i, j] = WrittenValue on the block of the last
\* random call.
CallerWrite(i, j) ==
    /\ out.op = "random" /\ out.ok
    /\ i \in 1..Len(out.block)
    /\ j \in 1..Len(out.block[i])
    /\ eng' = Written(eng, out, i, j, WrittenValue)
    /\ out' = [op |-> "caller_write", arg |-> <<i, j>>, ok |-> TRUE,
               block |-> [out.block EXCEPT ![i][j] = WrittenValue],
               perms |-> <<>>, err |-> "", warn |-> FALSE, pre |-> eng,
               pre_cg |-> cg]
    /\ UNCHANGED <<cg, ent, salt, args, firstPerms>>
    /\ UNCHANGED pairVars

WriteArgs ==
    {a \in AllArgs : /\ a.kind \in PointEngines
                     /\ a.seed.kind \in {"int", "gen"}
                     /\ a.niter = 1
                     /\ a.d = (IF a.kind = "OD" THEN 2 ELSE 1)}

InitWrite ==
    /\ salt \in 0..MaxSalt
    /\ \E a \in WriteArgs : InitWith(a)

TickWrite ==
    /\ nsteps < MaxWriteSteps
    /\ nsteps' = nsteps + 1

NextWrite ==
    \/ \E n \in {1, MaxN} : CallRandom(n) /\ TickWrite
    \/ CallReset /\ TickWrite
    \/ \E i \in 1..MaxN, j \in 1..2 : CallerWrite(i, j) /\ TickWrite

SpecWrite == InitWrite /\ [][NextWrite]_vars

\* The calls made after the caller wrote.
LaterCalls ==
    {<<Call("random", 1)>>, <<Call("random", MaxN)>>,
     <<Call("reset", 0), Call("random", 1)>>,
     <<Call("reset", 0), Call("random", MaxN)>>}

(***************************************************************************)
(* C21: no block returned by random shares storage with state the engine   *)
(* reads later: after the caller overwrote an entry of a returned block,   *)
(* every later random call, also after reset, returns what it returns on   *)
(* the engine as it was before the write.                                  *)
(***************************************************************************)
BlocksNotShared ==
    out.op = "caller_write" =>
        \A C \in LaterCalls :
            Run(World, C) = Run([World EXCEPT !.eng = out.pre], C)

(***************************************************************************)
(* The module-level functions on a sample: _perturb_discrepancy,           *)
(* _update_discrepancy, discrepancy and scale.  The sample is chosen in    *)
(* Init and kept in args.start_design; every action applies one function   *)
(* to it and records the arguments and the value returned in out.          *)
(***************************************************************************)
\* Coordinates of the samples: 0, 1/4 and 3/4.
GridValues == <<<<0, 1>>, <<1, 4>>, <<3, 4>>>>

\* Samples of MaxRows rows: every column of one dimension, and in two
\* dimensions every first column beside a second one that cycles through
\* the coordinates from offset r.
Samples ==
    {[i \in 1..MaxRows |-> <<GridValues[c[i]]>>] :
        c \in [1..MaxRows -> 1..3]}
    \cup
    {[i \in 1..MaxRows |-> <<GridValues[c[i]], GridValues[((i + r) % 3) + 1]>>] :
        c \in [1..MaxRows -> 1..3], r \in 0..1}

\* The sample the functions are applied to.
Sample == args.start_design.rows

\* The sample with entries i1 and i2 of column k exchanged.
Exchanged(sample, i1, i2, k) ==
    [sample EXCEPT ![i1][k] = sample[i2][k], ![i2][k] = sample[i1][k]]

\* Bounds of d columns whose two rows differ in every component.
BoundValues == {<<0 - 2, 1>>, <<0, 1>>, <<5, 1>>}

Bounds(d) ==
    {b \in [1..2 -> [1..d -> BoundValues]] : \A j \in 1..d : b[1][j] # b[2][j]}

\* No function has been applied to the sample yet: a behaviour is one
\* application, followed by the reverse one after a scale.
Fresh == out.op = "init"

\* The value v returned by the function op called with arg.
FunctionReturned(op, arg, v) ==
    /\ out' = [op |-> op, arg |-> arg, ok |-> TRUE, block |-> v,
               perms |-> <<>>, err |-> "", warn |-> FALSE, pre |-> eng,
               pre_cg |-> cg]
    /\ UNCHANGED <<eng, cg, ent, salt, args, firstPerms, nsteps>>
    /\ UNCHANGED pairVars

\* _perturb_discrepancy(sample, i1, i2, k, discrepancy(sample)), rows and
\* column counted from 1.
CallPerturbDiscrepancy(i1, i2, k) ==
    /\ Fresh
    /\ i1 \in 1..Len(Sample) /\ i2 \in 1..Len(Sample)
    /\ k \in 1..Len(Sample[1])
    /\ FunctionReturned("_perturb_discrepancy", <<i1, i2, k>>,
           <<<<PerturbDiscrepancy(Sample, i1, i2, k, Discrepancy(Sample))>>>>)

\* _update_discrepancy(x_new, sample, discrepancy(sample, iterative)).
CallUpdateDiscrepancy(x_new, iterative) ==
    /\ Fresh
    /\ Len(x_new) = Len(Sample[1])
    /\ FunctionReturned("_update_discrepancy",
           [x_new |-> x_new, iterative |-> iterative],
           <<<<UpdateDiscrepancy(x_new, Sample,
                                 DiscrepancyWith(Sample, iterative))>>>>)

\* scale(sample, bounds, reverse).
CallScale(bounds, reverse) ==
    /\ Fresh
    /\ FunctionReturned("scale", [bounds |-> bounds, reverse |-> reverse],
                        Scale(Sample, bounds, reverse))

\* scale(y, bounds, reverse=True) on the block y that scale(sample, bounds)
\* returned.
CallScaleBack ==
    /\ out.op = "scale" /\ ~out.arg.reverse
    /\ FunctionReturned("scale_back", out.arg,
                        Scale(out.block, out.arg.bounds, TRUE))

InitFunctions ==
    /\ salt = 0
    /\ \E s \in Samples :
          args = [Args("functions", Len(s[1]), NoneSeed, FALSE)
                    EXCEPT !.start_design = Design(s)]
    /\ eng = Blank
    /\ cg = NoWorld.cg
    /\ ent = 0
    /\ out = [op |-> "init", arg |-> 0, ok |-> TRUE, block |-> <<>>,
              perms |-> <<>>, err |-> "", warn |-> FALSE, pre |-> Blank,
              pre_cg |-> NoWorld.cg]
    /\ firstPerms = [some |-> FALSE, perms |-> <<>>]
    /\ nsteps = 0
    /\ engB = Blank
    /\ calls = <<>>
    /\ logA = <<>>
    /\ logB = <<>>

NextFunctions ==
    \/ \E i1 \in 1..MaxRows, i2 \in 1..MaxRows, k \in 1..2 :
          CallPerturbDiscrepancy(i1, i2, k)
    \/ \E d \in 1..2 :
          \E c \in [1..d -> 1..3], iterative \in BOOLEAN :
             CallUpdateDiscrepancy([j \in 1..d |-> GridValues[c[j]]],
                                   iterative)
    \/ \E bounds \in Bounds(Len(Sample[1])), reverse \in BOOLEAN :
          CallScale(bounds, reverse)
    \/ CallScaleBack

SpecFunctions == InitFunctions /\ [][NextFunctions]_vars

(***************************************************************************)
(* C22: for every design, every column k and all rows i1, i2 (also         *)
(* i1 = i2), _perturb_discrepancy(S, i1, i2, k, CD(S)) equals the same     *)
(* call with i1 and i2 interchanged and equals the centered discrepancy    *)
(* computed in full on S with S[i1, k] and S[i2, k] exchanged.             *)
(***************************************************************************)
PerturbEqualsRecomputation ==
    out.op = "_perturb_discrepancy" =>
        /\ out.block[1][1] =
              PerturbDiscrepancy(Sample, out.arg[2], out.arg[1], out.arg[3],
                                 Discrepancy(Sample))
        /\ out.block[1][1] =
              Discrepancy(Exchanged(Sample, out.arg[1], out.arg[2],
                                    out.arg[3]))

\* An exchange of two different rows that changes the discrepancy, on a
\* sample with a third row.
PerturbEqualsRecomputationWitness ==
    /\ out.op = "_perturb_discrepancy"
    /\ out.arg[1] # out.arg[2]
    /\ Len(Sample) > 2 /\ Len(Sample[1]) = 2
    /\ out.block[1][1] # Discrepancy(Sample)
    /\ PerturbEqualsRecomputation

RowsInterchanged(bounds) == <<bounds[2], bounds[1]>>

(***************************************************************************)
(* C24: for bounds whose two rows differ in every component,               *)
(* scale(scale(x, b), b, reverse=True) = x, and the result of scale is the *)
(* same whichever row of b holds the lower and which the upper bound.      *)
(***************************************************************************)
ScaleRoundTrip ==
    /\ out.op = "scale" =>
          /\ out.block = Scale(Sample, RowsInterchanged(out.arg.bounds),
                               out.arg.reverse)
          /\ ~out.arg.reverse =>
                Scale(out.block, RowsInterchanged(out.arg.bounds), TRUE)
                   = Sample
    /\ out.op = "scale_back" => out.block = Sample

\* A sample scaled and scaled back with bounds whose first row is the upper
\* bound in the first column.
ScaleRoundTripWitness ==
    /\ out.op = "scale_back"
    /\ RLess(out.arg.bounds[2][1], out.arg.bounds[1][1])
    /\ Scale(Sample, out.arg.bounds, FALSE) # Sample
    /\ out.block = Sample

(***************************************************************************)
(* The first points of the unscrambled Sobol sequence in two dimensions.   *)
(***************************************************************************)
\* The first eight points, in eighths.
FirstEight ==
    <<<<0, 0>>, <<4, 4>>, <<6, 2>>, <<2, 6>>,
      <<3, 3>>, <<7, 7>>, <<5, 1>>, <<1, 5>>>>

\* Points given in eighths as a block of fractions over 2^MAXBIT.
Eighths(points) ==
    [i \in 1..Len(points) |->
        [j \in 1..Len(points[i]) |->
            <<points[i][j] * (2^(MAXBIT - 3)), 2^MAXBIT>>]]

\* The engine at its base state: just constructed or just reset.
AtBase(e) == e.num_generated = 0 /\ e.quasi = e.shift

(***************************************************************************)
(* C25: an unscrambled Sobol engine with d = 2, from construction or after *)
(* reset, returns from random_base2(3) the points (0,0), (1/2,1/2),        *)
(* (3/4,1/4), (1/4,3/4), (3/8,3/8), (7/8,7/8), (5/8,1/8), (1/8,5/8) in     *)
(* this order, and after reset and fast_forward(4), random_base2(2)        *)
(* returns the last four of them.                                          *)
(***************************************************************************)
SobolFirstEightPoints ==
    (eng.kind = "Sobol" /\ eng.d = 2 /\ ~eng.scramble) =>
        /\ (out.op = "random_base2" /\ out.arg = 3 /\ AtBase(out.pre)) =>
              out.ok /\ out.block = Eighths(FirstEight)
        /\ out.op = "init" =>
              RandomBase2(World, 3).res = Ok(Eighths(FirstEight))
        /\ RandomBase2(SobolReset(World), 3).res = Ok(Eighths(FirstEight))
        /\ RandomBase2(SobolFastForward(SobolReset(World), 4), 2).res
              = Ok(Eighths(SubSeq(FirstEight, 5, 8)))

\* random_base2(3) returned the eight points on an engine that had returned
\* points from random before.
SobolFirstEightWitness ==
    /\ eng.kind = "Sobol" /\ eng.d = 2 /\ ~eng.scramble
    /\ out.op = "random_base2" /\ out.arg = 3 /\ out.ok
    /\ firstPerms.some
    /\ out.block = Eighths(FirstEight)
    /\ eng.num_generated = 8

(***************************************************************************)
(* C26: for an engine that uses the base-class reset                       *)
(* (OrthogonalLatinHypercube, Halton) and was constructed with a generator *)
(* instance as seed, the snapshot rng_seed taken at construction is never  *)
(* advanced by a draw: no random call changes it, and the blocks returned  *)
(* after a second reset equal the blocks returned after the first reset.   *)
(***************************************************************************)
SnapshotNeverAdvanced ==
    (eng.kind \in {"OLHS", "Halton"} /\ args.seed.kind = "gen") =>
        /\ (out.op = "random" /\ out.ok) => eng.rng_seed = out.pre.rng_seed
        /\ \A n \in 1..MaxN :
              Random(Reset(Random(Reset(World).w, n).w).w, n).res
                 = Random(Reset(World).w, n).res

(***************************************************************************)
(* Reference definitions for the columns of a design.                      *)
(***************************************************************************)
\* How often the value v occurs in column j.
ColumnCount(rows, j, v) == Cardinality({i \in 1..Len(rows) : rows[i][j] = v})

\* Every column of a holds the multiset of values of the same column of b.
SameColumns(a, b) ==
    /\ Len(a) = Len(b)
    /\ \A i \in 1..Len(a) : \A j \in 1..Len(a[i]) :
          ColumnCount(a, j, a[i][j]) = ColumnCount(b, j, a[i][j])

\* Every column has one point in each of the Len(rows) strata.
IsLatin(rows) ==
    \A j \in 1..Len(rows[1]) : \A s \in 0..(Len(rows) - 1) :
        Cardinality(InStratum(rows, j, s)) = 1

\* The design a random call started from: best_doe if there was one, else
\* the sample of the inner OrthogonalLatinHypercube.
DesignBefore(o) ==
    IF o.pre.best_doe.some THEN o.pre.best_doe.rows
    ELSE OlhsSample(GenOf(o.pre, o.pre_cg), o.pre.d, o.arg).sample

(***************************************************************************)
(* C27: in OptimalDesign, after objective evaluations and random calls     *)
(* every column of best_doe holds the multiset of values of the same       *)
(* column of the initial design, so a Latin hypercube stays one; an        *)
(* evaluation with row_1 = row_2 never commits a change; and the caller's  *)
(* start_design array is never written.                                    *)
(***************************************************************************)
DesignColumnsKept ==
    /\ (eng.kind = "OD" /\ out.op = "random" /\ eng.best_doe.some) =>
          /\ SameColumns(eng.best_doe.rows, DesignBefore(out))
          /\ IsLatin(DesignBefore(out)) => IsLatin(eng.best_doe.rows)
    /\ (eng.kind = "OD" /\ eng.best_doe.some) =>
          \A x \in Box(eng.d, Len(eng.best_doe.rows)) :
              LET r == PerturbBestDoe(World, x)
              IN /\ SameColumns(r.w.eng.best_doe.rows, eng.best_doe.rows)
                 /\ x[2] = x[3] => r.w = World
                 /\ r.w.eng.start_design = eng.start_design
    /\ (eng.kind = "OD" /\ eng.start_design.some) =>
          eng.start_design = args.start_design

\* A random call that kept an exchange on the sample of the inner engine,
\* a Latin hypercube of two columns.
DesignColumnsWitness ==
    /\ eng.kind = "OD" /\ out.op = "random" /\ out.ok
    /\ eng.d = 2 /\ eng.best_doe.some
    /\ ~out.pre.best_doe.some
    /\ eng.best_doe.rows # DesignBefore(out)
    /\ IsLatin(eng.best_doe.rows)
    /\ SameColumns(eng.best_doe.rows, DesignBefore(out))

(***************************************************************************)
(* A Sobol engine driven by random_base2 and reset only, its cursor capped *)
(* at MaxGen.                                                              *)
(***************************************************************************)
NextBase2 ==
    \/ \E m \in 0..(MaxM + 1) :
          /\ RandomBase2(World, m).res.ok =>
                eng.num_generated + 2^m <= MaxGen
          /\ CallRandomBase2(m)
          /\ UNCHANGED nsteps
    \/ CallReset /\ UNCHANGED nsteps

SpecBase2 == InitSobol /\ [][NextBase2]_vars

(***************************************************************************)
(* C28: on a Sobol engine driven only by successful random_base2 calls     *)
(* since construction or reset, num_generated is 0 or a power of two in    *)
(* every state; once the cursor is positive, random_base2(m) is accepted   *)
(* exactly for the m with 2^m = num_generated, doubles the cursor, and     *)
(* every other m is rejected, leaving the engine as it was.                *)
(***************************************************************************)
Base2CursorDoubles ==
    /\ eng.num_generated = 0 \/ IsPowerOfTwo(eng.num_generated)
    /\ (out.op = "random_base2" /\ out.pre.num_generated > 0) =>
          /\ out.ok <=> 2^out.arg = out.pre.num_generated
          /\ out.ok => eng.num_generated = 2 * out.pre.num_generated
          /\ ~out.ok => eng = out.pre
    /\ eng.num_generated > 0 =>
          \A m \in 0..(MaxM + 2) :
              RandomBase2(World, m).res.ok <=> 2^m = eng.num_generated

\* The second accepted call in a row: it doubled a cursor of at least 2.
Base2CursorDoublesWitness ==
    /\ out.op = "random_base2" /\ out.ok
    /\ out.arg >= 1 /\ out.pre.num_generated = 2^out.arg
    /\ eng.num_generated = 2 * out.pre.num_generated
====
